---- MODULE Spec2Model ----
(***************************************************************************)
(* Request correlation of the two CoAP clients of keti-tsn-ms:             *)
(*   - the server-side CoAPClient (coap-node.js, used by                   *)
(*     web-server-mup1.js), and                                            *)
(*   - the standalone CoAPClient (coap-client.js, used by mvdct.js).       *)
(* A behaviour follows one of the two classes (variable "variant").        *)
(***************************************************************************)
EXTENDS Integers, Sequences, FiniteSets, TLC

(***************************************************************************)
(* Bounds of the model.                                                    *)
(***************************************************************************)
\* number of request() calls followed individually in one behaviour
MaxRequests == 3
\* number of CoAPClient instances the server creates in one behaviour
MaxClients == 2
\* number of SerialPort objects the server creates in one behaviour
MaxPorts == 2
\* number of executeMvdct calls followed in one behaviour
MaxCalls == 3
\* latest value of Date.now() in one behaviour (the first is 0)
MaxTime == 2000

(***************************************************************************)
(* Program constants.                                                      *)
(***************************************************************************)
\* 0xFFFF: largest message ID before the server client wraps to 1
MaxMessageId == 65535
\* web-server.js: const CACHE_TTL = 2000
CACHE_TTL == 2000
\* web-server.js: if (resultCache.size > 100)
CacheLimit == 100
\* if (commandHistory.length > 100)
HistoryLimit == 100
\* the default request timeout is not modelled as a number: a timer that is
\* armed may fire at any later moment.

Requests == 1..MaxRequests
Clients == 1..MaxClients
Ports == 1..MaxPorts
\* callers of initializeSerial: 0 is the listen callback, r > 0 is the
\* executeCoAP call that issues request r
Callers == 0..MaxRequests

\* response codes of the correlation runs: 2.05 Content and 4.04 Not Found
Codes == {69, 132}
\* decoded payloads of the correlation runs
Payloads == {1, 2}
\* message ID of a stray inbound message (never allocated in these runs)
StrayIds == {7}

VARIABLES
    variant,          \* "server" (coap-node.js) or "standalone" (coap-client.js)
    coap,             \* the CoAPClient instance in use (0: none yet)
    messageId,        \* messageId[c]: the counter field of instance c
    pendingRequests,  \* pendingRequests[c]: Map from key to the request whose
                      \* resolve/reject/timeout the entry holds
    nRequests,        \* number of requests issued so far
    client,           \* client[r]: instance that request r was sent through
    key,              \* key[r]: Map key r was registered under (0: not yet)
    wireId,           \* wireId[r]: 16-bit ID in bytes 2-3 of r's header
    promise,          \* "unsent", "pending", "fulfilled", "rejected"
    result,           \* what the promise settled with
    timer,            \* "none", "armed", "fired", "cleared"
    writes,           \* writes[r]: frames written to the transport for r
    settles,          \* settles[r]: calls of r's resolve or reject
    removals,         \* removals[r]: deletions of the entry holding r
    last,             \* the event handled by the most recent step
    isConnected,      \* web-server-mup1.js: let isConnected
    serial,           \* web-server-mup1.js: let serial (0: null)
    nPorts,           \* SerialPort objects created so far
    portState,        \* "unused", "opening", "open", "closed", "failed"
    attached,         \* attached[p]: sets of data/error/close handlers on port p
    nClients,         \* CoAPClient instances created so far
    serialOf,         \* serialOf[c]: the port instance c writes to
    awaiting,         \* awaiting[k]: port whose open caller k awaits (0: none)
    started,          \* the listen callback has run
    stream,           \* the bytes the device puts on the serial line
    sent,             \* the frames those bytes were made from
    pos,              \* number of bytes of stream delivered so far
    receiveBuffer,    \* the receiveBuffer field of the stream handler
    decoded,          \* frames decodeFrame has returned, in order
    req,              \* arguments of a buildMessage call
    rsp,              \* a CoAP message the device sends
    message,          \* bytes of the CoAP message built or received
    parsed,           \* what parseResponse returned for message
    web,              \* the web server program: "mvdct" (web-server.js),
                      \* "mup1" (web-server-mup1.js), "mup1cc"
    nCalls,           \* executeMvdct calls made so far
    args,             \* args[k]: argument list of call k
    requestQueue,     \* web-server.js: const requestQueue (call numbers)
    isProcessing,     \* web-server.js: let isProcessing
    immediates,       \* setImmediate(processQueue) callbacks not yet run
    proc,             \* proc[k]: "none", "running", "failing", "failed",
                      \* "closed"
    timeoutId,        \* the 15 s timer of call k: "none", "armed", "fired",
                      \* "cleared"
    killTimer,        \* the 3 s timer of call k: "none", "armed", "fired"
    killed,           \* proc.killed of the child of call k
    signals,          \* signals[k]: signals sent to the child of call k
    outcome,          \* promise of call k: "none", "pending", "resolved",
                      \* "rejected"
    settledWith,      \* what the promise of call k settled with
    closeEvent,       \* closeEvent[k]: code and time of the close event of
                      \* the child of call k
    spawned,          \* call numbers in the order their children were spawned
    resultCache,      \* web-server.js: const resultCache, in insertion order
    commandHistory,   \* let commandHistory
    now               \* Date.now()

connVars == <<isConnected, serial, nPorts, portState, attached, nClients,
              serialOf, awaiting, started>>
corrVars == <<messageId, pendingRequests, nRequests, client, key, wireId,
              promise, result, timer, writes, settles, removals>>
streamVars == <<stream, sent, pos, receiveBuffer, decoded>>
codecVars == <<req, rsp, message, parsed>>
byteVars == <<streamVars, codecVars>>
webVars == <<web, nCalls, args, requestQueue, isProcessing, immediates, proc,
             timeoutId, killTimer, killed, signals, outcome, settledWith,
             closeEvent,
             spawned, resultCache, commandHistory, now>>
vars == <<variant, coap, corrVars, last, connVars, byteVars, webVars>>

(***************************************************************************)
(* Map helpers (JavaScript Map: set overwrites, delete removes).           *)
(***************************************************************************)
EmptyMap == [k \in {} |-> 0]
MapHas(m, k) == k \in DOMAIN m
MapSet(m, k, v) == [x \in (DOMAIN m) \cup {k} |-> IF x = k THEN v ELSE m[x]]
MapDelete(m, k) == [x \in (DOMAIN m) \ {k} |-> m[x]]

NoResult == [kind |-> "none", code |-> 0, payload |-> 0]
Fulfilled(p) == [kind |-> "value", code |-> 0, payload |-> p]
DeviceError(c, p) == [kind |-> "error", code |-> c, payload |-> p]
TimeoutError == [kind |-> "timeout", code |-> 0, payload |-> 0]

\* an inbound CoAP message as parseResponse returns it
Messages(ids, codes, payloads) ==
    [messageId : ids, code : codes, payload : payloads]
NoMsg == [messageId |-> 0, code |-> 0, payload |-> 0]
Event(op, r, m) == [op |-> op, req |-> r, msg |-> m]

Settled(r) == promise[r] \in {"fulfilled", "rejected"}

\* A JavaScript promise keeps its first settlement; later calls of resolve or
\* reject are ignored by the promise but are still calls.
SettlePromise(r, state) ==
    [promise EXCEPT ![r] = IF @ = "pending" THEN state ELSE @]
SettleResult(r, res) ==
    [result EXCEPT ![r] = IF promise[r] = "pending" THEN res ELSE @]

(***************************************************************************)
(* Server client (coap-node.js).                                           *)
(***************************************************************************)
\* request(): const mid = this.messageId++; if (> 0xFFFF) this.messageId = 1
NextMessageId(m) == IF m + 1 > MaxMessageId THEN 1 ELSE m + 1

\* buildMessage(): bytes 2-3 of the header, read back as parseResponse does
HeaderMessageId(mid) == ((mid \div 256) % 256) * 256 + (mid % 256)

\* handleData(): Math.floor(response.code / 32)
ResponseClass(code) == code \div 32

\* a success test without upper end: code >= 64
IsSuccessFrom64(code) == code >= 64

\* handleData(): responseClass === 2
IsSuccess(code) == ResponseClass(code) = 2

\* a lookup that ignores the ID and takes the entry with the smallest key
LookupOldest(m, id) ==
    IF DOMAIN m # {}
    THEN m[CHOOSE k \in DOMAIN m : \A j \in DOMAIN m : k <= j]
    ELSE 0

\* a lookup that falls back to some entry when the ID is unknown
LookupOrAny(m, id) ==
    IF MapHas(m, id) THEN m[id]
    ELSE IF DOMAIN m # {} THEN m[CHOOSE k \in DOMAIN m : TRUE] ELSE 0

\* the entry handleData / handleResponse looks up for an inbound message
Lookup(m, id) == IF MapHas(m, id) THEN m[id] ELSE 0

\* a request() that writes the frame and leaves the registration out
RequestOnUnregistered(c, r) ==
    /\ LET mid == messageId[c]
       IN /\ messageId' = [messageId EXCEPT ![c] = NextMessageId(mid)]
          /\ key' = [key EXCEPT ![r] = mid]
          /\ wireId' = [wireId EXCEPT ![r] = HeaderMessageId(mid)]
    /\ client' = [client EXCEPT ![r] = c]
    /\ promise' = [promise EXCEPT ![r] = "pending"]
    /\ timer' = [timer EXCEPT ![r] = "armed"]
    /\ writes' = [writes EXCEPT ![r] = @ + 1]
    /\ UNCHANGED <<pendingRequests, result, settles, removals>>

\* request() on instance c: allocate, build, register (Map.set), arm the
\* timer, write the frame
RequestOn(c, r) ==
    /\ LET mid == messageId[c]
       IN /\ messageId' = [messageId EXCEPT ![c] = NextMessageId(mid)]
          /\ pendingRequests' =
                 [pendingRequests EXCEPT ![c] = MapSet(@, mid, r)]
          /\ key' = [key EXCEPT ![r] = mid]
          /\ wireId' = [wireId EXCEPT ![r] = HeaderMessageId(mid)]
    /\ client' = [client EXCEPT ![r] = c]
    /\ promise' = [promise EXCEPT ![r] = "pending"]
    /\ timer' = [timer EXCEPT ![r] = "armed"]
    /\ writes' = [writes EXCEPT ![r] = @ + 1]
    /\ UNCHANGED <<result, settles, removals>>

\* get/post/put/delete of the server client: one request() call
Request(r) ==
    /\ variant = "server"
    /\ coap # 0
    /\ r = nRequests + 1
    /\ r \in Requests
    /\ nRequests' = r
    /\ RequestOn(coap, r)
    /\ last' = Event("request", r, NoMsg)
    /\ UNCHANGED <<webVars, byteVars, variant, coap, connVars>>

\* the setTimeout callback of request()
TimeoutFires(r) ==
    /\ variant = "server"
    /\ timer[r] = "armed"
    /\ timer' = [timer EXCEPT ![r] = "fired"]
    /\ LET c == client[r]
           q == Lookup(pendingRequests[c], key[r])
       IN IF q # 0
          THEN /\ pendingRequests' =
                      [pendingRequests EXCEPT ![c] = MapDelete(@, key[r])]
               /\ removals' = [removals EXCEPT ![q] = @ + 1]
               /\ settles' = [settles EXCEPT ![r] = @ + 1]
               /\ promise' = SettlePromise(r, "rejected")
               /\ result' = SettleResult(r, TimeoutError)
          ELSE UNCHANGED <<pendingRequests, removals, settles, promise, result>>
    /\ last' = Event("timeout", r, NoMsg)
    /\ UNCHANGED <<webVars, byteVars, variant, coap, connVars, messageId, nRequests, client, key, wireId,
                   writes>>

\* handleData(), branch decoded.type === 'C', for the parsed response m
HandleCoap(m) ==
    /\ variant = "server"
    /\ coap # 0
    /\ LET c == coap
           q == Lookup(pendingRequests[c], m.messageId)
       IN IF q # 0
          THEN /\ timer' = [timer EXCEPT ![q] = IF @ = "armed" THEN "cleared" ELSE @]
               /\ pendingRequests' =
                      [pendingRequests EXCEPT ![c] = MapDelete(@, m.messageId)]
               /\ removals' = [removals EXCEPT ![q] = @ + 1]
               /\ settles' = [settles EXCEPT ![q] = @ + 1]
               /\ IF IsSuccess(m.code)
                  THEN /\ promise' = SettlePromise(q, "fulfilled")
                       /\ result' = SettleResult(q, Fulfilled(m.payload))
                  ELSE /\ promise' = SettlePromise(q, "rejected")
                       /\ result' = SettleResult(q, DeviceError(m.code, m.payload))
          ELSE UNCHANGED <<timer, pendingRequests, removals, settles, promise,
                           result>>
    /\ last' = Event("rx", 0, m)
    /\ UNCHANGED <<webVars, byteVars, variant, coap, connVars, messageId, nRequests, client, key, wireId,
                   writes>>

(***************************************************************************)
(* Standalone client (coap-client.js), driven by MVDCTClient (mvdct.js).   *)
(***************************************************************************)
\* get/post/put/delete: buildMessage (const mid = this.messageId++, no wrap),
\* registerRequest(mid), then MVDCTClient writes the frame
SA_Request(r) ==
    /\ variant = "standalone"
    /\ coap # 0
    /\ r = nRequests + 1
    /\ r \in Requests
    /\ LET c == coap
           mid == messageId[c]
       IN /\ messageId' = [messageId EXCEPT ![c] = mid + 1]
          /\ pendingRequests' =
                 [pendingRequests EXCEPT ![c] = MapSet(@, mid, r)]
          /\ client' = [client EXCEPT ![r] = c]
          /\ key' = [key EXCEPT ![r] = mid]
          /\ wireId' = [wireId EXCEPT ![r] = HeaderMessageId(mid)]
    /\ nRequests' = r
    /\ promise' = [promise EXCEPT ![r] = "pending"]
    /\ timer' = [timer EXCEPT ![r] = "armed"]
    /\ writes' = [writes EXCEPT ![r] = @ + 1]
    /\ last' = Event("request", r, NoMsg)
    /\ UNCHANGED <<webVars, byteVars, variant, coap, connVars, result, settles, removals>>

\* the setTimeout callback of registerRequest()
SA_TimeoutFires(r) ==
    /\ variant = "standalone"
    /\ timer[r] = "armed"
    /\ timer' = [timer EXCEPT ![r] = "fired"]
    /\ LET c == client[r]
           q == Lookup(pendingRequests[c], key[r])
       IN IF q # 0
          THEN /\ pendingRequests' =
                      [pendingRequests EXCEPT ![c] = MapDelete(@, key[r])]
               /\ removals' = [removals EXCEPT ![q] = @ + 1]
               /\ settles' = [settles EXCEPT ![r] = @ + 1]
               /\ promise' = SettlePromise(r, "rejected")
               /\ result' = SettleResult(r, TimeoutError)
          ELSE UNCHANGED <<pendingRequests, removals, settles, promise, result>>
    /\ last' = Event("timeout", r, NoMsg)
    /\ UNCHANGED <<webVars, byteVars, variant, coap, connVars, messageId, nRequests, client, key, wireId,
                   writes>>

\* handleResponse(), for the parsed response m; the timer is never cleared
SA_HandleResponse(m) ==
    /\ variant = "standalone"
    /\ coap # 0
    /\ LET c == coap
           q == Lookup(pendingRequests[c], m.messageId)
       IN IF q # 0
          THEN /\ pendingRequests' =
                      [pendingRequests EXCEPT ![c] = MapDelete(@, m.messageId)]
               /\ removals' = [removals EXCEPT ![q] = @ + 1]
               /\ settles' = [settles EXCEPT ![q] = @ + 1]
               /\ IF IsSuccess(m.code)
                  THEN /\ promise' = SettlePromise(q, "fulfilled")
                       /\ result' = SettleResult(q, Fulfilled(m.payload))
                  ELSE /\ promise' = SettlePromise(q, "rejected")
                       /\ result' = SettleResult(q, DeviceError(m.code, m.payload))
          ELSE UNCHANGED <<pendingRequests, removals, settles, promise, result>>
    /\ last' = Event("rx", 0, m)
    /\ UNCHANGED <<webVars, byteVars, variant, coap, connVars, messageId, nRequests, client, key, wireId,
                   writes, timer>>

(***************************************************************************)
(* Initial states.  A client starts with messageId = 1 and an empty Map    *)
(* (constructor).  The counter only reaches 0xFFFF after 65534 requests,   *)
(* so the model also starts from the state of a client that has made       *)
(* them: its first request (ID 1) is still unanswered and its timer has    *)
(* not fired yet, every later request has been settled and removed, and    *)
(* the counter stands at 0xFFFF.  Nothing in either client bounds the      *)
(* number of request calls made before a timer fires.                      *)
(***************************************************************************)
\* the web server has run no command: empty queue, cache and history
Calls == 1..MaxCalls
NoArgs == [get |-> FALSE, set |-> FALSE, path |-> 0]
NoValue == [kind |-> "none", of |-> 0]
NoExit == [code |-> -1, at |-> 0]
InitNoCalls ==
    /\ nCalls = 0
    /\ args = [k \in Calls |-> NoArgs]
    /\ requestQueue = << >>
    /\ isProcessing = FALSE
    /\ immediates = 0
    /\ proc = [k \in Calls |-> "none"]
    /\ timeoutId = [k \in Calls |-> "none"]
    /\ killTimer = [k \in Calls |-> "none"]
    /\ killed = [k \in Calls |-> FALSE]
    /\ signals = [k \in Calls |-> << >>]
    /\ outcome = [k \in Calls |-> "none"]
    /\ settledWith = [k \in Calls |-> NoValue]
    /\ closeEvent = [k \in Calls |-> NoExit]
    /\ spawned = << >>
    /\ now = 0
InitNoWeb ==
    /\ web = "mvdct"
    /\ InitNoCalls
    /\ resultCache = << >>
    /\ commandHistory = << >>

\* no byte has arrived: Buffer.alloc(0)
InitNoStream ==
    /\ stream = << >>
    /\ sent = << >>
    /\ pos = 0
    /\ receiveBuffer = << >>
    /\ decoded = << >>

\* no message is being built or parsed
NoReq == [method |-> 0, mid |-> 0, path |-> << >>, query |-> << >>,
          payload |-> -1]
NoRsp == [code |-> 0, mid |-> 0, token |-> << >>, options |-> << >>,
          payload |-> << >>, marker |-> FALSE]
NotParsed == [state |-> "none", code |-> 0, messageId |-> 0,
              payload |-> [kind |-> "null", value |-> 0, bytes |-> << >>]]
InitNoCodec ==
    /\ req = NoReq
    /\ rsp = NoRsp
    /\ message = << >>
    /\ parsed = NotParsed

InitNoBytes == InitNoStream /\ InitNoCodec

InitFresh ==
    /\ messageId = [c \in Clients |-> 1]
    /\ pendingRequests = [c \in Clients |-> EmptyMap]
    /\ nRequests = 0
    /\ client = [r \in Requests |-> 0]
    /\ key = [r \in Requests |-> 0]
    /\ wireId = [r \in Requests |-> 0]
    /\ promise = [r \in Requests |-> "unsent"]
    /\ result = [r \in Requests |-> NoResult]
    /\ timer = [r \in Requests |-> "none"]
    /\ writes = [r \in Requests |-> 0]
    /\ settles = [r \in Requests |-> 0]
    /\ removals = [r \in Requests |-> 0]

InitAged ==
    /\ messageId = [c \in Clients |-> IF c = 1 THEN MaxMessageId ELSE 1]
    /\ pendingRequests = [c \in Clients |-> IF c = 1 THEN MapSet(EmptyMap, 1, 1)
                                                     ELSE EmptyMap]
    /\ nRequests = 1
    /\ client = [r \in Requests |-> IF r = 1 THEN 1 ELSE 0]
    /\ key = [r \in Requests |-> IF r = 1 THEN 1 ELSE 0]
    /\ wireId = [r \in Requests |-> IF r = 1 THEN 1 ELSE 0]
    /\ promise = [r \in Requests |-> IF r = 1 THEN "pending" ELSE "unsent"]
    /\ result = [r \in Requests |-> NoResult]
    /\ timer = [r \in Requests |-> IF r = 1 THEN "armed" ELSE "none"]
    /\ writes = [r \in Requests |-> IF r = 1 THEN 1 ELSE 0]
    /\ settles = [r \in Requests |-> 0]
    /\ removals = [r \in Requests |-> 0]

\* a client that is constructed and attached to an open port
InitConnected ==
    /\ coap = 1
    /\ isConnected = TRUE
    /\ serial = 1
    /\ nPorts = 1
    /\ portState = [p \in Ports |-> IF p = 1 THEN "open" ELSE "unused"]
    /\ attached = [p \in Ports |-> IF p = 1 THEN 1 ELSE 0]
    /\ nClients = 1
    /\ serialOf = [c \in Clients |-> IF c = 1 THEN 1 ELSE 0]
    /\ awaiting = [k \in Callers |-> 0]
    /\ started = TRUE

Init ==
    /\ variant \in {"server", "standalone"}
    /\ InitConnected
    /\ InitFresh \/ InitAged
    /\ last = Event("init", 0, NoMsg)
    /\ InitNoWeb
    /\ InitNoBytes

\* message IDs an inbound message can carry: those of the requests written so
\* far (their responses, possibly late or repeated) and stray ones
InboundIds == {wireId[q] : q \in 1..nRequests} \cup StrayIds

Next ==
    \/ \E r \in Requests : Request(r)
    \/ \E r \in Requests : TimeoutFires(r)
    \/ \E m \in Messages(InboundIds, Codes, Payloads) : HandleCoap(m)
    \/ \E r \in Requests : SA_Request(r)
    \/ \E r \in Requests : SA_TimeoutFires(r)
    \/ \E m \in Messages(InboundIds, Codes, Payloads) : SA_HandleResponse(m)

Spec == Init /\ [][Next]_vars

TypeOK ==
    /\ variant \in {"server", "standalone"}
    /\ nRequests \in 0..MaxRequests
    /\ \A r \in Requests :
          /\ promise[r] \in {"unsent", "pending", "fulfilled", "rejected"}
          /\ timer[r] \in {"none", "armed", "fired", "cleared"}

(***************************************************************************)
(* Connection lifecycle of the direct-MUP1 server (web-server-mup1.js).    *)
(***************************************************************************)
\* serial && serial.isOpen
PortIsOpen == serial # 0 /\ portState[serial] = "open"

\* ensureConnection(): true without calling initializeSerial
IsEnsured == isConnected /\ PortIsOpen

\* initializeSerial() of caller k, from new SerialPort up to the await of
\* serial.open
BeginOpen(k) ==
    LET p == nPorts + 1
    IN /\ p \in Ports
       /\ nPorts' = p
       /\ serial' = p
       /\ portState' = [portState EXCEPT ![p] = "opening"]
       /\ awaiting' = [awaiting EXCEPT ![k] = p]
       /\ UNCHANGED <<isConnected, attached, nClients, serialOf, coap>>

\* app.listen callback: await initializeSerial()
Startup ==
    /\ variant = "server"
    /\ ~started
    /\ started' = TRUE
    /\ BeginOpen(0)
    /\ last' = Event("startup", 0, NoMsg)
    /\ UNCHANGED <<webVars, byteVars, variant, corrVars>>

\* executeCoAP(): ensureConnection, then coap.get/post/put/delete; when the
\* port has to be opened the call waits for the open callback
ExecuteCoAP(r) ==
    /\ variant = "server"
    /\ started
    /\ r = nRequests + 1
    /\ r \in Requests
    /\ nRequests' = r
    /\ IF IsEnsured \/ PortIsOpen
       THEN /\ coap # 0
            /\ RequestOn(coap, r)
            /\ UNCHANGED <<coap, connVars>>
       ELSE /\ BeginOpen(r)
            /\ UNCHANGED <<started, messageId, pendingRequests, client, key,
                           wireId, promise, result, timer, writes, settles,
                           removals>>
    /\ last' = Event("execute", r, NoMsg)
    /\ UNCHANGED <<webVars, byteVars, variant>>

\* serial.open callback without error, for the caller that awaits port p:
\* initializeSerial creates the client on the global serial, attaches the
\* handlers to it, sets isConnected; executeCoAP then sends its request
OpenSucceeds(p) ==
    /\ variant = "server"
    /\ portState[p] = "opening"
    /\ \E k \in Callers :
          /\ awaiting[k] = p
          /\ LET c == nClients + 1
             IN /\ c \in Clients
                /\ nClients' = c
                /\ coap' = c
                /\ serialOf' = [serialOf EXCEPT ![c] = serial]
                /\ IF k = 0
                   THEN UNCHANGED <<messageId, pendingRequests, client, key,
                                    wireId, promise, result, timer, writes,
                                    settles, removals>>
                   ELSE RequestOn(c, k)
          /\ awaiting' = [awaiting EXCEPT ![k] = 0]
    /\ portState' = [portState EXCEPT ![p] = "open"]
    /\ attached' = [attached EXCEPT ![serial] = @ + 1]
    /\ isConnected' = TRUE
    /\ last' = Event("open", 0, NoMsg)
    /\ UNCHANGED <<webVars, byteVars, variant, serial, nPorts, started, nRequests>>

\* serial.open callback with an error: initializeSerial returns false and
\* executeCoAP fails with 'Failed to connect to device'
OpenFails(p) ==
    /\ variant = "server"
    /\ portState[p] = "opening"
    /\ portState' = [portState EXCEPT ![p] = "failed"]
    /\ isConnected' = FALSE
    /\ awaiting' = [k \in Callers |-> IF awaiting[k] = p THEN 0 ELSE awaiting[k]]
    /\ last' = Event("open-failed", 0, NoMsg)
    /\ UNCHANGED <<webVars, byteVars, variant, coap, corrVars, serial, nPorts, attached, nClients,
                   serialOf, started>>

\* serial.on('error')
SerialError(p) ==
    /\ variant = "server"
    /\ portState[p] = "open"
    /\ attached[p] > 0
    /\ isConnected' = FALSE
    /\ last' = Event("serial-error", 0, NoMsg)
    /\ UNCHANGED <<webVars, byteVars, variant, coap, corrVars, serial, nPorts, portState, attached,
                   nClients, serialOf, awaiting, started>>

\* the port closes; serial.on('close') where the handlers are attached
SerialClose(p) ==
    /\ variant = "server"
    /\ portState[p] = "open"
    /\ portState' = [portState EXCEPT ![p] = "closed"]
    /\ isConnected' = IF attached[p] > 0 THEN FALSE ELSE isConnected
    /\ last' = Event("serial-close", 0, NoMsg)
    /\ UNCHANGED <<webVars, byteVars, variant, coap, corrVars, serial, nPorts, attached, nClients,
                   serialOf, awaiting, started>>

\* serial.on('data'): coap.handleData on the global client
SerialData(m) ==
    /\ \E p \in Ports : portState[p] = "open" /\ attached[p] > 0
    /\ HandleCoap(m)

InitServer ==
    /\ variant = "server"
    /\ coap = 0
    /\ isConnected = FALSE
    /\ serial = 0
    /\ nPorts = 0
    /\ portState = [p \in Ports |-> "unused"]
    /\ attached = [p \in Ports |-> 0]
    /\ nClients = 0
    /\ serialOf = [c \in Clients |-> 0]
    /\ awaiting = [k \in Callers |-> 0]
    /\ started = FALSE
    /\ InitFresh
    /\ last = Event("init", 0, NoMsg)
    /\ InitNoWeb
    /\ InitNoBytes

NextServer ==
    \/ Startup
    \/ \E r \in Requests : ExecuteCoAP(r)
    \/ \E p \in Ports : OpenSucceeds(p)
    \/ \E p \in Ports : OpenFails(p)
    \/ \E p \in Ports : SerialError(p)
    \/ \E p \in Ports : SerialClose(p)
    \/ \E m \in Messages(InboundIds, Codes, Payloads) : SerialData(m)
    \/ \E r \in Requests : TimeoutFires(r)

SpecServer == InitServer /\ [][NextServer]_vars

(***************************************************************************)
(* Response classification over the whole range of the code byte.          *)
(***************************************************************************)
\* every value of the code byte data[1]
AllCodes == 0..255
\* decoded payloads of the classification runs: 0 stands for null
ResponsePayloads == {0, 1, 2}

InitResponse ==
    /\ variant \in {"server", "standalone"}
    /\ InitConnected
    /\ InitFresh
    /\ last = Event("init", 0, NoMsg)
    /\ InitNoWeb
    /\ InitNoBytes

\* message IDs of the responses to the outstanding requests
OutstandingIds ==
    {wireId[q] : q \in {x \in Requests : promise[x] = "pending"}}

NextResponse ==
    \/ Request(1)
    \/ \E m \in Messages(OutstandingIds, AllCodes, ResponsePayloads) :
          HandleCoap(m)
    \/ SA_Request(1)
    \/ \E m \in Messages(OutstandingIds, AllCodes, ResponsePayloads) :
          SA_HandleResponse(m)

SpecResponse == InitResponse /\ [][NextResponse]_vars

(***************************************************************************)
(* Properties of the request correlator.                                   *)
(***************************************************************************)
Sent(r) == promise[r] # "unsent"

\* the Map of r's client still holds the entry that carries r's callbacks
EntryLive(r) ==
    /\ Sent(r)
    /\ MapHas(pendingRequests[client[r]], key[r])
    /\ pendingRequests[client[r]][key[r]] = r

\* the step registers request r
Registers(r) == promise[r] = "unsent" /\ promise'[r] = "pending"

\* the step is the timer callback of request r
IsTimeoutOf(r) == last'.op = "timeout" /\ last'.req = r /\ timer[r] = "armed"

\* the step hands an inbound CoAP message to the correlator
IsInbound == last'.op = "rx"

\* C1: every request's resolve/reject is called at most once, and the entry
\* that holds it leaves pendingRequests exactly once, deleted by the matching
\* response or by the timeout: a request is settled exactly when its entry
\* has been deleted once, and until then its entry is in the Map.
C1_SettledOnceRemovedOnce ==
    \A r \in Requests :
        Sent(r) =>
            /\ settles[r] <= 1
            /\ removals[r] <= 1
            /\ Settled(r) <=> (removals[r] = 1)
            /\ ~Settled(r) => EntryLive(r)

\* C2: once the timeout of a request has elapsed (its timer callback has
\* run), the promise of the request is settled.
C2_SettledOnceElapsed ==
    \A r \in Requests : timer[r] = "fired" => Settled(r)

\* C3: a request is never registered under a message ID that is a key of
\* pendingRequests at that moment.
C3_NoLiveIdReuse ==
    [][\A r \in Requests :
          Registers(r) => ~MapHas(pendingRequests[client'[r]], key'[r])]_vars

\* C4: every allocated message ID is in 1..65535, it is the ID written into
\* the header, and the next allocation is one larger, or 1 after 65535.
C4_MessageIdRange ==
    [][\A r \in Requests :
          Registers(r) =>
              LET c == client'[r]
              IN /\ key'[r] \in 1..65535
                 /\ key'[r] = messageId[c]
                 /\ wireId'[r] = key'[r]
                 /\ messageId'[c] = IF key'[r] = 65535 THEN 1 ELSE key'[r] + 1]_vars

\* C5: a promise is only fulfilled by an inbound response that carries the
\* request's own message ID, with exactly that response's payload, and the
\* same response settles no other request.
C5_OwnPayload ==
    [][\A r \in Requests :
          (promise[r] = "pending" /\ promise'[r] = "fulfilled") =>
              /\ IsInbound
              /\ last'.msg.messageId = wireId[r]
              /\ result'[r] = Fulfilled(last'.msg.payload)
              /\ \A q \in Requests \ {r} :
                    promise'[q] = promise[q] /\ result'[q] = result[q]]_vars

\* C6: when the timer of a still unsettled request fires, its entry is
\* removed and the promise is rejected with the timeout error; a response
\* carrying the ID of a timed-out request settles no promise and changes
\* nothing in the correlator.
C6_TimeoutThenDrop ==
    [][\A r \in Requests :
          /\ (IsTimeoutOf(r) /\ promise[r] = "pending") =>
                 /\ ~MapHas(pendingRequests'[client[r]], key[r])
                 /\ promise'[r] = "rejected"
                 /\ result'[r] = TimeoutError
          /\ (IsInbound /\ result[r] = TimeoutError
                        /\ last'.msg.messageId = wireId[r]) =>
                 UNCHANGED <<pendingRequests, promise, result, settles>>]_vars

\* C7: the timeout of one request leaves every other outstanding request
\* alone: its entry stays in pendingRequests, its timer stays armed and its
\* promise stays pending.
C7_TimeoutIsolation ==
    [][\A r \in Requests : \A q \in Requests \ {r} :
          (IsTimeoutOf(r) /\ EntryLive(q)) =>
              /\ EntryLive(q)'
              /\ promise'[q] = promise[q]
              /\ timer'[q] = timer[q]]_vars

\* C8: an inbound message whose ID is not a key of pendingRequests changes
\* nothing: the Map, the counter and every promise stay as they are.
C8_StrayDropped ==
    [][(IsInbound /\ ~MapHas(pendingRequests[coap], last'.msg.messageId)) =>
          UNCHANGED corrVars]_vars

\* reached: two requests were outstanding under different IDs, the later one
\* was fulfilled first, and the response handled last fulfilled the earlier
\* one with a different payload
W_C5_ReverseOrder ==
    \E r, q \in Requests :
        /\ r < q
        /\ key[r] # key[q]
        /\ promise[r] = "fulfilled" /\ promise[q] = "fulfilled"
        /\ last.op = "rx"
        /\ last.msg.messageId = wireId[r]
        /\ result[r] = Fulfilled(last.msg.payload)
        /\ result[q].payload # result[r].payload
        /\ timer[r] \in {"cleared", "armed"}

\* reached: a message with an unknown ID was handled while a request was
\* outstanding, and one carrying the ID of an already settled request
W_C8_StrayWhilePending ==
    /\ last.op = "rx"
    /\ ~MapHas(pendingRequests[coap], last.msg.messageId)
    /\ \E r \in Requests : promise[r] = "pending" /\ EntryLive(r)
    /\ \/ last.msg.messageId \in StrayIds
       \/ \E q \in Requests : Settled(q) /\ wireId[q] = last.msg.messageId

\* C9: a response that matches a pending request settles it by the class
\* floor(code / 32): class 2 fulfils the promise with the payload, any other
\* class rejects it with an error carrying the code and the payload.
C9_ClassDecidesOutcome ==
    [][IsInbound =>
          LET m == last'.msg
              q == IF MapHas(pendingRequests[coap], m.messageId)
                   THEN pendingRequests[coap][m.messageId] ELSE 0
          IN q # 0 =>
                IF m.code \div 32 = 2
                THEN /\ promise'[q] = "fulfilled"
                     /\ result'[q] = [kind |-> "value", code |-> 0,
                                      payload |-> m.payload]
                ELSE /\ promise'[q] = "rejected"
                     /\ result'[q] = [kind |-> "error", code |-> m.code,
                                      payload |-> m.payload]]_vars

\* reached: a class-5 response with a payload has rejected its request
W_C9_ErrorCarriesCode ==
    \E q \in Requests :
        /\ last.op = "rx"
        /\ last.msg.messageId = wireId[q]
        /\ last.msg.code \div 32 = 5
        /\ last.msg.payload # 0
        /\ promise[q] = "rejected"
        /\ result[q].code = last.msg.code
        /\ result[q].payload = last.msg.payload

\* the step is a transport loss: the 'error' or the 'close' event
IsLoss == last'.op \in {"serial-error", "serial-close"}

\* C10: on a transport loss every request in pendingRequests is rejected
\* with a transport error in that step, and a frame is only written while
\* the connection is up or in the step that completes a reconnect.
C10_TransportLoss ==
    [][/\ IsLoss =>
             \A r \in Requests :
                 EntryLive(r) =>
                     /\ promise'[r] = "rejected"
                     /\ result'[r].kind = "transport"
       /\ \A r \in Requests :
             writes'[r] > writes[r] => (isConnected \/ last'.op = "open")]_vars

\* C11: a request is written exactly once, in the step that registers it;
\* no other step (timeout, response) writes for it; when the timer of a
\* pending request fires the request is rejected with the timeout error, and
\* an error response carrying the ID of a pending request rejects it with
\* the code and payload of that response.
C11_NoRetransmit ==
    [][\A r \in Requests :
          /\ Registers(r) => writes'[r] = 1
          /\ ~Registers(r) => writes'[r] = writes[r]
          /\ (IsTimeoutOf(r) /\ promise[r] = "pending") =>
                 /\ promise'[r] = "rejected"
                 /\ result'[r] = TimeoutError
          /\ (IsInbound /\ promise[r] = "pending"
                        /\ last'.msg.messageId = wireId[r]
                        /\ last'.msg.code \div 32 # 2) =>
                 /\ promise'[r] = "rejected"
                 /\ result'[r] = DeviceError(last'.msg.code,
                                             last'.msg.payload)]_vars

(***************************************************************************)
(* Cancellation.  Neither CoAPClient has a cancel or abort member and      *)
(* request() takes no abort signal: a caller that invokes cancel on the    *)
(* client gets a TypeError before any field of the client is touched.      *)
(***************************************************************************)
\* the caller of in-flight request r invokes cancel on the client
Cancel(r) ==
    /\ promise[r] = "pending"
    /\ last' = Event("cancel", r, NoMsg)
    /\ UNCHANGED <<webVars, byteVars, variant, coap, corrVars, connVars>>

NextCancel ==
    \/ Next
    \/ \E r \in Requests : Cancel(r)

SpecCancel == Init /\ [][NextCancel]_vars

\* C12: a cancel of an in-flight request removes its entry from
\* pendingRequests and rejects its promise with a cancellation error, without
\* a further write; once cancelled, no response and no timeout changes the
\* settlement.
C12_CancelSettles ==
    [][\A r \in Requests :
          /\ (last'.op = "cancel" /\ last'.req = r /\ promise[r] = "pending") =>
                 /\ ~EntryLive(r)'
                 /\ promise'[r] = "rejected"
                 /\ result'[r].kind = "cancelled"
                 /\ writes'[r] = writes[r]
          /\ result[r].kind = "cancelled" =>
                 /\ result'[r] = result[r]
                 /\ settles'[r] = settles[r]]_vars

(***************************************************************************)
(* MUP1 frame codec (MUP1Protocol).  The wire format is                    *)
(*   start marker, type tag, payload, end marker (single or doubled),      *)
(*   four ASCII-hex checksum characters;                                   *)
(* the checksum is computed over the type tag and the payload.             *)
(***************************************************************************)
\* longest frame payload put on the line in the stream runs
MaxPayloadLen == 2

\* protocol.SOF '>' and protocol.EOF '<'
SOF == 62
EOF == 60
\* frame type tags: 'C' carries a CoAP message, 'A' is an announcement
TypeCoap == 67
TypeAnnounce == 65
\* 'P': the reply to a ping
TypePing == 80
FrameTypes == {TypeCoap, TypeAnnounce}

\* 0-based Buffer access: buf[i], buf.slice(a, b), buf.slice(a)
At(buf, i) == buf[i + 1]
Slice(buf, a, b) == SubSeq(buf, a + 1, b)
SliceFrom(buf, a) == SubSeq(buf, a + 1, Len(buf))

\* buf.indexOf(v, from): first index >= from holding v, or -1
RECURSIVE IndexOf(_, _, _)
IndexOf(buf, v, from) ==
    IF from >= Len(buf) THEN -1
    ELSE IF At(buf, from) = v THEN from
    ELSE IndexOf(buf, v, from + 1)

RECURSIVE SumBytes(_)
SumBytes(bytes) ==
    IF bytes = << >> THEN 0 ELSE bytes[1] + SumBytes(Tail(bytes))

\* 16-bit checksum over type tag and payload
Checksum(type, data) == (type + SumBytes(data)) % 65536

\* one hexadecimal digit as an ASCII character (0-9, A-F)
HexChar(d) == IF d < 10 THEN 48 + d ELSE 55 + d

ChecksumText(c) ==
    <<HexChar(c \div 4096), HexChar((c \div 256) % 16),
      HexChar((c \div 16) % 16), HexChar(c % 16)>>

\* the escape byte '\': a start marker, end marker or escape byte inside the
\* payload is sent as the escape byte followed by the byte itself
ESC == 92
Escaped == {SOF, EOF, ESC}

RECURSIVE Escape(_)
Escape(data) ==
    IF data = << >> THEN << >>
    ELSE (IF data[1] \in Escaped THEN <<ESC, data[1]>> ELSE <<data[1]>>)
         \o Escape(Tail(data))

\* the escaped bytes b are well formed from byte i on: no bare marker, every
\* escape byte is followed by a byte that is escaped
RECURSIVE ValidEscaped(_, _)
ValidEscaped(b, i) ==
    IF i > Len(b) THEN TRUE
    ELSE IF b[i] = ESC
    THEN i + 1 <= Len(b) /\ b[i + 1] \in Escaped /\ ValidEscaped(b, i + 2)
    ELSE b[i] \notin {SOF, EOF} /\ ValidEscaped(b, i + 1)

RECURSIVE Unescape(_, _)
Unescape(b, i) ==
    IF i > Len(b) THEN << >>
    ELSE IF b[i] = ESC THEN <<b[i + 1]>> \o Unescape(b, i + 2)
    ELSE <<b[i]>> \o Unescape(b, i + 1)

\* the terminating end marker of frame f: the first end marker at or after
\* byte i that is not escaped (0: none)
RECURSIVE TerminatorAt(_, _)
TerminatorAt(f, i) ==
    IF i > Len(f) THEN 0
    ELSE IF f[i] = EOF THEN i
    ELSE IF f[i] = ESC THEN TerminatorAt(f, i + 2)
    ELSE TerminatorAt(f, i + 1)

\* the encoder: createCoapFrame(message) is EncodeFrame(TypeCoap, message, d)
EncodeFrame(type, data, doubled) ==
    <<SOF, type>> \o Escape(data)
        \o (IF doubled THEN <<EOF, EOF>> ELSE <<EOF>>)
        \o ChecksumText(Checksum(type, data))

NoFrame == [ok |-> FALSE, type |-> 0, data |-> << >>]

\* a decoder that does not compare the checksum
decodeFrameUnchecked(frameData) ==
    LET n == Len(frameData)
        e == TerminatorAt(frameData, 3)
        body == SubSeq(frameData, 3, e - 1)
        cs == IF e + 1 <= n /\ frameData[e + 1] = EOF THEN e + 2 ELSE e + 1
    IN IF n < 7 \/ frameData[1] # SOF \/ e = 0 \/ n # cs + 3
       THEN NoFrame
       ELSE IF ~ValidEscaped(body, 1)
       THEN NoFrame
       ELSE [ok |-> TRUE, type |-> frameData[2], data |-> Unescape(body, 1)]

\* decodeFrame(frameData): the frame, or ok = FALSE where the decoder throws
\* (no start marker, no terminating end marker with four checksum
\* characters behind it, a bare marker or a broken escape in the payload,
\* checksum mismatch)
decodeFrame(frameData) ==
    LET n == Len(frameData)
        e == TerminatorAt(frameData, 3)
        body == SubSeq(frameData, 3, e - 1)
        cs == IF e + 1 <= n /\ frameData[e + 1] = EOF THEN e + 2 ELSE e + 1
    IN IF n < 7 \/ frameData[1] # SOF \/ e = 0 \/ n # cs + 3
       THEN NoFrame
       ELSE IF ~ValidEscaped(body, 1)
       THEN NoFrame
       ELSE IF SubSeq(frameData, cs, n)
                   # ChecksumText(Checksum(frameData[2], Unescape(body, 1)))
       THEN NoFrame
       ELSE [ok |-> TRUE, type |-> frameData[2], data |-> Unescape(body, 1)]

(***************************************************************************)
(* Stream reassembly: handleData of the server client (coap-node.js) and   *)
(* of MVDCTClient (mvdct.js).                                              *)
(***************************************************************************)
\* "Need at least 8 bytes for minimal frame"
MinFrameBytes == 8

\* result of one pass through the body of the while loop: the buffer it
\* leaves, the frames decodeFrame returned (none or one), and whether the
\* pass left the loop with break
Pass(buf, frames, exit) == [buffer |-> buf, frames |-> frames, exit |-> exit]

\* where the checksum starts: one past the end marker, two past it when the
\* end marker is doubled (a read past the end of the buffer is undefined)
ChecksumStart(buf, eofIndex) ==
    IF eofIndex + 1 < Len(buf) /\ At(buf, eofIndex + 1) = EOF
    THEN eofIndex + 2 ELSE eofIndex + 1

\* a loop that leaves a buffer without start marker as it is
ServerPassKeep(buffer) ==
    LET sofIndex == IndexOf(buffer, SOF, 0)
        buf == IF sofIndex > 0 THEN SliceFrom(buffer, sofIndex) ELSE buffer
        eofIndex == IndexOf(buf, EOF, 2)
        frameEnd == ChecksumStart(buf, eofIndex) + 4
        d == decodeFrame(Slice(buf, 0, frameEnd))
    IN IF sofIndex = -1 THEN Pass(buffer, << >>, TRUE)
       ELSE IF Len(buf) < MinFrameBytes THEN Pass(buf, << >>, TRUE)
       ELSE IF eofIndex = -1 THEN Pass(buf, << >>, TRUE)
       ELSE IF Len(buf) < frameEnd THEN Pass(buf, << >>, TRUE)
       ELSE Pass(SliceFrom(buf, frameEnd),
                 IF d.ok THEN <<[type |-> d.type, data |-> d.data]>>
                 ELSE << >>,
                 FALSE)

\* one pass of the server client's loop: the frame is cut off the buffer
\* before it is decoded, a decode error is caught and logged
ServerPass(buffer) ==
    LET sofIndex == IndexOf(buffer, SOF, 0)
        buf == IF sofIndex > 0 THEN SliceFrom(buffer, sofIndex) ELSE buffer
        eofIndex == IndexOf(buf, EOF, 2)
        frameEnd == ChecksumStart(buf, eofIndex) + 4
        d == decodeFrame(Slice(buf, 0, frameEnd))
    IN IF sofIndex = -1 THEN Pass(<< >>, << >>, TRUE)
       ELSE IF Len(buf) < MinFrameBytes THEN Pass(buf, << >>, TRUE)
       ELSE IF eofIndex = -1 THEN Pass(buf, << >>, TRUE)
       ELSE IF Len(buf) < frameEnd THEN Pass(buf, << >>, TRUE)
       ELSE Pass(SliceFrom(buf, frameEnd),
                 IF d.ok THEN <<[type |-> d.type, data |-> d.data]>>
                 ELSE << >>,
                 FALSE)

\* a catch block that drops no byte
ClientPassNoSkip(buffer) ==
    LET sofIndex == IndexOf(buffer, SOF, 0)
        buf == IF sofIndex > 0 THEN SliceFrom(buffer, sofIndex) ELSE buffer
        eofIndex == IndexOf(buf, EOF, 2)
        frameLength == ChecksumStart(buf, eofIndex) + 4
        d == decodeFrame(Slice(buf, 0, frameLength))
    IN IF sofIndex = -1 THEN Pass(<< >>, << >>, TRUE)
       ELSE IF Len(buf) < MinFrameBytes THEN Pass(buf, << >>, TRUE)
       ELSE IF eofIndex = -1 THEN Pass(buf, << >>, TRUE)
       ELSE IF Len(buf) < frameLength THEN Pass(buf, << >>, TRUE)
       ELSE IF d.ok
       THEN Pass(SliceFrom(buf, frameLength),
                 <<[type |-> d.type, data |-> d.data]>>, FALSE)
       ELSE Pass(buf, << >>, FALSE)

\* one pass of MVDCTClient's loop: the frame is decoded first and cut off
\* only after that; the catch block drops one byte instead
ClientPass(buffer) ==
    LET sofIndex == IndexOf(buffer, SOF, 0)
        buf == IF sofIndex > 0 THEN SliceFrom(buffer, sofIndex) ELSE buffer
        eofIndex == IndexOf(buf, EOF, 2)
        frameLength == ChecksumStart(buf, eofIndex) + 4
        d == decodeFrame(Slice(buf, 0, frameLength))
    IN IF sofIndex = -1 THEN Pass(<< >>, << >>, TRUE)
       ELSE IF Len(buf) < MinFrameBytes THEN Pass(buf, << >>, TRUE)
       ELSE IF eofIndex = -1 THEN Pass(buf, << >>, TRUE)
       ELSE IF Len(buf) < frameLength THEN Pass(buf, << >>, TRUE)
       ELSE IF d.ok
       THEN Pass(SliceFrom(buf, frameLength),
                 <<[type |-> d.type, data |-> d.data]>>, FALSE)
       ELSE Pass(SliceFrom(buf, 1), << >>, FALSE)

LoopPass(v, buffer) ==
    IF v = "server" THEN ServerPass(buffer) ELSE ClientPass(buffer)

\* while (this.receiveBuffer.length > 0) { ... }: the buffer and the frames
\* decoded when the loop is left
RECURSIVE RunLoop(_, _, _)
RunLoop(v, buffer, frames) ==
    IF Len(buffer) = 0 THEN [buffer |-> buffer, frames |-> frames]
    ELSE LET p == LoopPass(v, buffer)
         IN IF p.exit
            THEN [buffer |-> p.buffer, frames |-> frames \o p.frames]
            ELSE RunLoop(v, p.buffer, frames \o p.frames)

\* handleData(data) for the next n bytes of the line: Buffer.concat, then the
\* loop.  No request is outstanding in the stream runs, so a 'C' frame finds
\* no entry in pendingRequests and settles nothing.
HandleData(n) ==
    /\ stream # << >>
    /\ n \in 0..(Len(stream) - pos)
    /\ \A c \in Clients : pendingRequests[c] = EmptyMap
    /\ \E out \in {RunLoop(variant,
                             receiveBuffer \o SubSeq(stream, pos + 1, pos + n),
                             << >>)} :
          /\ receiveBuffer' = out.buffer
          /\ decoded' = decoded \o out.frames
    /\ pos' = pos + n
    /\ last' = Event("data", 0, NoMsg)
    /\ UNCHANGED <<webVars, variant, coap, corrVars, connVars, codecVars, stream, sent>>

(***************************************************************************)
(* What the device puts on the line in the stream runs: valid frames back  *)
(* to back, or one corrupted frame followed by a valid one.                *)
(***************************************************************************)
\* payloads on the line: the first k bytes of 1, 2, 3, ...
WirePayloads == {[i \in 1..k |-> i] : k \in 0..MaxPayloadLen}
\* values a corrupted byte takes: 'x' and the two marker bytes
CorruptValues == {120, SOF, EOF}

\* a frame on the line: at = 0 for an intact frame, otherwise byte number at
\* of the encoded frame is replaced by the value to
ValidItems ==
    [type : FrameTypes, data : WirePayloads, doubled : BOOLEAN,
     at : {0}, to : {0}]
CorruptedItems ==
    {it \in [type : {TypeCoap}, data : WirePayloads, doubled : BOOLEAN,
             at : 1..(MaxPayloadLen + 8), to : CorruptValues] :
        LET f == EncodeFrame(it.type, it.data, it.doubled)
        IN it.at <= Len(f) /\ f[it.at] # it.to}

ItemBytes(it) ==
    LET f == EncodeFrame(it.type, it.data, it.doubled)
    IN IF it.at = 0 THEN f ELSE [f EXCEPT ![it.at] = it.to]

RECURSIVE LineBytes(_)
LineBytes(items) ==
    IF items = << >> THEN << >>
    ELSE ItemBytes(items[1]) \o LineBytes(Tail(items))

\* the frame decodeFrame returns for an intact item
FrameOf(it) == [type |-> it.type, data |-> it.data]

Lines ==
    {<<a>> : a \in ValidItems}
    \cup {<<a, b>> : a \in ValidItems, b \in ValidItems}
    \cup {<<a, b, a>> : a \in ValidItems, b \in ValidItems}
    \cup {<<x, b>> : x \in CorruptedItems, b \in ValidItems}

InitStream ==
    /\ variant \in {"server", "standalone"}
    /\ InitConnected
    /\ InitFresh
    /\ sent \in Lines
    /\ stream = LineBytes(sent)
    /\ pos = 0
    /\ receiveBuffer = << >>
    /\ decoded = << >>
    /\ InitNoCodec
    /\ last = Event("init", 0, NoMsg)
    /\ InitNoWeb

NextStream == \E n \in 0..(3 * (MaxPayloadLen + 8)) : HandleData(n)

SpecStream == InitStream /\ [][NextStream]_vars

(***************************************************************************)
(* Properties of the stream reassembly.                                    *)
(***************************************************************************)
AllDelivered == stream # << >> /\ pos = Len(stream)
AllIntact == \A i \in 1..Len(sent) : sent[i].at = 0

\* number of bytes of the first m frames of the line
Boundary(m) == Len(LineBytes(SubSeq(sent, 1, m)))
\* number of frames of the line that lie completely within its first k bytes
CompleteIn(k) ==
    CHOOSE m \in 0..Len(sent) :
        /\ Boundary(m) <= k
        /\ m < Len(sent) => Boundary(m + 1) > k

\* the buffer from its first start marker on
FromSof(buf) ==
    LET i == IndexOf(buf, SOF, 0) IN IF i > 0 THEN SliceFrom(buf, i) ELSE buf

\* the next pass over buf cuts a frame and decodeFrame throws on it
DecodeFails(v, buf) ==
    buf # << >> /\ LoopPass(v, buf).exit = FALSE
                /\ LoopPass(v, buf).frames = << >>

\* C13: one valid frame, delivered in chunks split at any offset, gives
\* exactly one decoded frame, the one that was encoded, whatever the split,
\* and leaves receiveBuffer empty.
C13_SplitAnywhere ==
    (Len(sent) = 1 /\ AllIntact /\ AllDelivered) =>
        /\ decoded = <<FrameOf(sent[1])>>
        /\ receiveBuffer = << >>

\* the frame from item i of the line has at least the minimal frame size
IsLong(i) == Len(ItemBytes(sent[i])) >= MinFrameBytes

\* C14: a corrupted frame immediately followed by a valid frame (of at least
\* the minimal frame size) gives exactly one decoded frame, the valid one,
\* whichever byte of the first frame is corrupted; and when decodeFrame
\* throws, the buffer is left one byte past the start marker of the
\* discarded frame.
C14_Resync ==
    (Len(sent) = 2 /\ sent[1].at # 0 /\ IsLong(2)) =>
        /\ AllDelivered => decoded = <<FrameOf(sent[2])>>
        /\ DecodeFails(variant, stream) =>
               LoopPass(variant, stream).buffer = SliceFrom(FromSof(stream), 1)

\* C15: a chunk that holds several complete valid frames back to back is
\* handled by one handleData call that decodes each of them, in arrival
\* order, and leaves in the buffer exactly the bytes after the last complete
\* frame.
C15_AllFramesInOneCall ==
    [][(AllIntact /\ Len(sent) >= 2 /\ pos = 0 /\ pos' >= Boundary(2)) =>
          LET m == CompleteIn(pos')
          IN /\ decoded' = [i \in 1..m |-> FrameOf(sent[i])]
             /\ receiveBuffer' = SubSeq(stream, Boundary(m) + 1, pos')]_vars

\* C16: corruption costs only the corrupted frame: once a line with a
\* corrupted frame has been delivered, in any chunking, the intact frame
\* that follows it (of at least the minimal frame size) has been decoded.
C16_OnlyAffectedFrameLost ==
    (AllDelivered /\ ~AllIntact) =>
        \A i \in 1..Len(sent) :
            (sent[i].at = 0 /\ IsLong(i)) =>
                \E j \in 1..Len(decoded) : decoded[j] = FrameOf(sent[i])

\* C30: whenever the bytes received so far hold a complete valid frame,
\* handleData has dispatched it in that same call: after every call the
\* number of decoded frames is the number of frames of the line that have
\* arrived completely, the minimal frame of 7 bytes included.
C30_CompleteFrameDispatched ==
    [][AllIntact => Len(decoded') = CompleteIn(pos')]_vars

(***************************************************************************)
(* Frames whose payload holds marker bytes: the encoder escapes them, the  *)
(* line carries one such frame, delivered in any chunks.                   *)
(***************************************************************************)
\* the payload holds a start marker or an end marker
HasMarker(data) == \E i \in 1..Len(data) : data[i] \in {SOF, EOF}

MarkerPayloads ==
    {d \in UNION {[1..k -> {1, SOF, EOF, ESC}] : k \in 1..MaxPayloadLen} :
        HasMarker(d)}

EscapedItems ==
    [type : FrameTypes, data : MarkerPayloads, doubled : BOOLEAN,
     at : {0}, to : {0}]

InitEscaped ==
    /\ variant \in {"server", "standalone"}
    /\ InitConnected
    /\ InitFresh
    /\ sent \in {<<a>> : a \in EscapedItems}
    /\ stream = LineBytes(sent)
    /\ pos = 0
    /\ receiveBuffer = << >>
    /\ decoded = << >>
    /\ InitNoCodec
    /\ last = Event("init", 0, NoMsg)
    /\ InitNoWeb

SpecEscaped == InitEscaped /\ [][NextStream]_vars

\* C29: a valid frame whose payload holds a start-marker or end-marker byte,
\* escaped by the encoder, is cut at its terminating end marker: once all its
\* bytes have arrived, in any chunks, it has been decoded once and intact.
C29_EscapedFrameIntact ==
    (Len(sent) = 1 /\ HasMarker(sent[1].data) /\ AllDelivered) =>
        decoded = <<FrameOf(sent[1])>>

(***************************************************************************)
(* The decoder on its own: decode(bytes) -> Frame | IncompleteError |       *)
(* ChecksumError, given the bytes of one encoded frame, intact or with one *)
(* bit of its payload bytes flipped.                                       *)
(***************************************************************************)
\* the outcome of decode: IncompleteError when there are not enough bytes for
\* even a minimal frame, ChecksumError for every other frame that is not
\* valid
DecodeError(frameData) ==
    IF decodeFrame(frameData).ok THEN "none"
    ELSE IF Len(frameData) < 7 THEN "IncompleteError"
    ELSE "ChecksumError"

\* byte x with bit b flipped
BitFlip(x, b) ==
    IF (x \div (2 ^ b)) % 2 = 1 THEN x - 2 ^ b ELSE x + 2 ^ b

\* payload bytes of the decoder runs: the bytes that are escaped, bytes one
\* bit away from them, and a byte that is far from them
FlipBytes == {1, EOF + 1, SOF + 1, ESC + 1, SOF, EOF, ESC}
FlipPayloads == UNION {[1..k -> FlipBytes] : k \in 0..MaxPayloadLen}

IntactItems ==
    [type : FrameTypes, data : FlipPayloads, doubled : BOOLEAN,
     at : {0}, to : {0}]
\* one bit of the frame is flipped on the line: bit b of byte a, a byte of
\* the escaped payload
FlipBit(a, b) ==
    /\ Len(sent) = 1
    /\ sent[1].at = 0
    /\ pos = 0
    /\ a \in 3..(2 + Len(Escape(sent[1].data)))
    /\ sent' = <<[sent[1] EXCEPT !.at = a, !.to = BitFlip(stream[a], b)]>>
    /\ stream' = [stream EXCEPT ![a] = BitFlip(stream[a], b)]
    /\ last' = Event("flip", 0, NoMsg)
    /\ UNCHANGED <<webVars, variant, coap, corrVars, connVars, codecVars>>
    /\ UNCHANGED <<pos, receiveBuffer, decoded>>

\* decode(bytes) applied to the bytes of the frame
Decode ==
    /\ stream # << >>
    /\ pos = 0
    /\ LET d == decodeFrame(stream)
       IN /\ decoded' = IF d.ok THEN <<[type |-> d.type, data |-> d.data]>>
                        ELSE << >>
          /\ last' = Event(DecodeError(stream), 0, NoMsg)
    /\ pos' = Len(stream)
    /\ UNCHANGED <<webVars, variant, coap, corrVars, connVars, codecVars>>
    /\ UNCHANGED <<stream, sent, receiveBuffer>>

InitFrame ==
    /\ variant = "server"
    /\ InitConnected
    /\ InitFresh
    /\ sent \in {<<a>> : a \in IntactItems}
    /\ stream = LineBytes(sent)
    /\ pos = 0
    /\ receiveBuffer = << >>
    /\ decoded = << >>
    /\ InitNoCodec
    /\ last = Event("init", 0, NoMsg)
    /\ InitNoWeb

NextFrame ==
    \/ \E a \in 3..(2 + 2 * MaxPayloadLen), b \in 0..7 : FlipBit(a, b)
    \/ Decode

SpecFrame == InitFrame /\ [][NextFrame]_vars

NoiseBefore == {<< >>, <<120>>, <<EOF, 120>>}
NoiseAfter == {<< >>, <<120>>}

\* lines of frames: one frame (intact, corrupted, or with escaped marker
\* bytes in its payload) or two intact frames
LoopLines ==
    {<<a>> : a \in ValidItems \cup CorruptedItems \cup EscapedItems}
    \cup {<<a, b>> : a \in ValidItems, b \in ValidItems}

\* lines of the minimal frame size that begin with a start marker and go on
\* with start markers, end markers and the character '0'
RawLines ==
    {r \in [1..MinFrameBytes -> {SOF, EOF, 48}] : r[1] = SOF}

InitLoop ==
    /\ variant \in {"server", "standalone"}
    /\ InitConnected
    /\ InitFresh
    /\ \/ /\ sent \in LoopLines
          /\ \E a \in NoiseBefore, b \in NoiseAfter :
                 stream = a \o LineBytes(sent) \o b
       \/ /\ sent = << >>
          /\ stream \in RawLines
    /\ pos = 0
    /\ receiveBuffer = << >>
    /\ decoded = << >>
    /\ InitNoCodec
    /\ last = Event("init", 0, NoMsg)
    /\ InitNoWeb

\* handleData is running
InLoop == last.op \in {"concat", "pass"}

\* handleData(data) is called with the next n bytes of the line:
\* Buffer.concat
HandleDataConcat(n) ==
    /\ ~InLoop
    /\ n \in 1..(Len(stream) - pos)
    /\ receiveBuffer' = receiveBuffer \o SubSeq(stream, pos + 1, pos + n)
    /\ pos' = pos + n
    /\ last' = Event("concat", 0, NoMsg)
    /\ UNCHANGED <<webVars, variant, coap, corrVars, connVars, codecVars,
                   stream, sent, decoded>>

\* the loop condition and, when it holds, one pass through the loop body
HandleDataPass ==
    /\ InLoop
    /\ IF Len(receiveBuffer) = 0
       THEN /\ last' = Event("returned", 0, NoMsg)
            /\ UNCHANGED <<receiveBuffer, decoded>>
       ELSE \E p \in {LoopPass(variant, receiveBuffer)} :
               /\ receiveBuffer' = p.buffer
               /\ decoded' = decoded \o p.frames
               /\ last' = Event(IF p.exit THEN "returned" ELSE "pass",
                                0, NoMsg)
    /\ UNCHANGED <<webVars, variant, coap, corrVars, connVars, codecVars,
                   stream, sent, pos>>

NextLoop ==
    \/ \E n \in 1..(3 * (MaxPayloadLen + 8)) : HandleDataConcat(n)
    \/ HandleDataPass

SpecLoop == InitLoop /\ [][NextLoop]_vars

\* the same lines, each handleData call taken as one step
SpecNoise == InitLoop /\ [][NextStream]_vars

\* C38: handleData terminates on every input: a pass through its loop body
\* that does not leave the loop leaves the buffer strictly shorter than it
\* found it, whatever the buffer holds and whether decodeFrame returns a
\* frame or throws.
C38_LoopTerminates ==
    [][last'.op = "pass" => Len(receiveBuffer') < Len(receiveBuffer)]_vars

\* MVDCTClient's loop has dropped one byte after a decode error on a
\* corrupted frame and has gone on
W_C38_ErrorPassShrinks ==
    /\ variant = "standalone"
    /\ Len(sent) = 1
    /\ sent[1].at # 0
    /\ last.op = "pass"
    /\ decoded = << >>
    /\ receiveBuffer # << >>

\* the buffer holds a start marker
HasSof(buf) == IndexOf(buf, SOF, 0) # -1
\* the buffer is empty or begins with the start marker
Aligned(buf) == buf = << >> \/ buf[1] = SOF
\* the chunk a handleData step was called with
Chunk == SubSeq(stream, pos + 1, pos')

\* C39 as stated: after every handleData call the receive buffer is empty or
\* begins with the start marker, and a chunk that holds no start marker
\* leaves the buffer empty.
C39_BufferAligned ==
    [][last'.op = "data" =>
          /\ Aligned(receiveBuffer')
          /\ (pos' > pos /\ ~HasSof(Chunk)) => receiveBuffer' = << >>]_vars

\* C39 amended: after every handleData call the receive buffer is empty or
\* begins with the start marker, and it is empty when the buffer and the
\* chunk together hold no start marker.
C39_BufferAlignedAmended ==
    [][last'.op = "data" =>
          /\ Aligned(receiveBuffer')
          /\ ~HasSof(receiveBuffer \o Chunk) => receiveBuffer' = << >>]_vars

\* the line began with bytes that are no start marker; after a call the
\* buffer holds the beginning of a frame, from its start marker on
W_C39_NoiseDropped ==
    /\ last.op = "data"
    /\ stream # << >>
    /\ stream[1] # SOF
    /\ pos > 0
    /\ receiveBuffer # << >>
    /\ receiveBuffer[1] = SOF

(***************************************************************************)
(* CoAP message codec: buildMessage, encodeOptions and parseResponse of    *)
(* both clients.  A URI is given by the pieces String.split finds in it:   *)
(* path[i] is the length of the i-th piece between '/' separators (0 for   *)
(* an empty piece, as before a leading '/'), query[j] the length of the    *)
(* j-th piece between '&' separators after the '?'.  A payload is -1 for   *)
(* null or an unsigned integer below 256.                                  *)
(***************************************************************************)
\* most '/'-separated pieces in the path of a URI of the codec runs
MaxSegments == 2

\* payload marker
PayloadMarker == 255

\* the characters of path piece i and of query piece j
SegmentChars(i, len) == [k \in 1..len |-> 96 + i]
QueryChars(j, len) == [k \in 1..len |-> 112 + j]

\* Buffer.from(array): every element is taken modulo 256
ToBytes(array) == [k \in 1..Len(array) |-> array[k] % 256]

\* cbor-x encode / decode, for unsigned integers below 256; decode gives the
\* raw bytes where the library throws
cborEncode(value) == IF value < 24 THEN <<value>> ELSE <<24, value>>
NullPayload == [kind |-> "null", value |-> 0, bytes |-> << >>]
ValuePayload(value) == [kind |-> "value", value |-> value, bytes |-> << >>]
cborDecode(bytes) ==
    IF Len(bytes) = 1 /\ bytes[1] < 24 THEN ValuePayload(bytes[1])
    ELSE IF Len(bytes) = 2 /\ bytes[1] = 24 THEN ValuePayload(bytes[2])
    ELSE [kind |-> "raw", value |-> 0, bytes |-> bytes]

\* encodeOptions of the server client, one Uri-Path segment
ServerSegmentOption(delta, segment) ==
    LET length == Len(segment)
    IN (IF delta < 13 /\ length < 13 THEN <<delta * 16 + length>>
        ELSE (IF delta < 13
              THEN <<delta * 16 + (IF length < 13 THEN length ELSE 13)>>
              ELSE IF delta < 269
              THEN <<13 * 16 + (IF length < 13 THEN length ELSE 13),
                     delta - 13>>
              ELSE << >>)
             \o (IF length >= 13 /\ length < 269 THEN <<length - 13>>
                 ELSE << >>))
       \o segment

\* encodeOptions of the standalone client, one Uri-Path segment: firstByte
\* is only pushed when it is not 0
ClientSegmentOption(delta, segment) ==
    LET length == Len(segment)
        firstByte == IF delta < 13 THEN delta * 16 ELSE 0
        pre == IF delta < 13 THEN << >>
               ELSE IF delta < 269 THEN <<13 * 16, delta - 13>>
               ELSE <<14 * 16, (delta - 269) \div 256, (delta - 269) % 256>>
    IN (IF delta < 13 /\ length < 13 THEN <<delta * 16 + length>>
        ELSE pre \o
             (IF length < 13
              THEN (IF firstByte # 0 THEN <<firstByte + length>> ELSE << >>)
              ELSE IF length < 269
              THEN (IF firstByte # 0 THEN <<firstByte + 13>> ELSE << >>)
                   \o <<length - 13>>
              ELSE (IF firstByte # 0 THEN <<firstByte + 14>> ELSE << >>)
                   \o <<(length - 269) \div 256, (length - 269) % 256>>))
       \o segment

SegmentOption(v, delta, segment) ==
    IF v = "server" THEN ServerSegmentOption(delta, segment)
    ELSE ClientSegmentOption(delta, segment)

\* segments.forEach: the pieces that filter(s => s) keeps, from piece i on
RECURSIVE EncodeSegments(_, _, _, _)
EncodeSegments(v, path, i, prevOption) ==
    IF i > Len(path) THEN << >>
    ELSE IF path[i] = 0 THEN EncodeSegments(v, path, i + 1, prevOption)
    ELSE SegmentOption(v, 11 - prevOption, SegmentChars(i, path[i]))
         \o EncodeSegments(v, path, i + 1, 11)

\* Content-Format: 260 in two bytes (server), 60 in one byte (standalone)
ContentFormatOption(v, prevOption) ==
    IF v = "server" THEN <<(12 - prevOption) * 16 + 2, 1, 4>>
    ELSE <<(12 - prevOption) * 16 + 1, 60>>

\* one Uri-Query item; both clients push nibble 13 and length - 13 for every
\* length of 13 or more
QueryOption(v, qDelta, q) ==
    (IF qDelta < 13 /\ Len(q) < 13 THEN <<qDelta * 16 + Len(q)>>
     ELSE IF v = "server" THEN <<qDelta * 16 + 13, Len(q) - 13>>
     ELSE <<(IF qDelta < 13 THEN qDelta ELSE 13) * 16 + 13, Len(q) - 13>>)
    \o q

\* for (const q of queries): the pieces that filter(Boolean) keeps
RECURSIVE EncodeQueries(_, _, _, _)
EncodeQueries(v, query, j, prevOption) ==
    IF j > Len(query) THEN << >>
    ELSE IF query[j] = 0 THEN EncodeQueries(v, query, j + 1, prevOption)
    ELSE QueryOption(v, 15 - prevOption, QueryChars(j, query[j]))
         \o EncodeQueries(v, query, j + 1, 15)

\* encodeOptions(uri)
encodeOptions(v, path, query) ==
    LET prevOption == IF \E i \in 1..Len(path) : path[i] # 0 THEN 11 ELSE 0
    IN EncodeSegments(v, path, 1, 0)
       \o ContentFormatOption(v, prevOption)
       \o EncodeQueries(v, query, 1, 12)

\* buildMessage(method, uri, payload, messageId)
buildMessage(v, method, path, query, payload, mid) ==
    ToBytes(<<64, method, (mid \div 256) % 256, mid % 256>>
            \o encodeOptions(v, path, query)
            \o (IF payload # -1 THEN <<PayloadMarker>> \o cborEncode(payload)
                ELSE << >>))

\* parseResponse(data): the first byte 0xFF at or after the token is taken as
\* the payload marker
parseResponse(data) ==
    IF Len(data) < 4
    THEN [state |-> "error", code |-> 0, messageId |-> 0,
          payload |-> NullPayload]
    ELSE LET tokenLength == data[1] % 16
             offset == 4 + tokenLength
             marks == {i \in offset..(Len(data) - 1) :
                          At(data, i) = PayloadMarker}
             payloadStart ==
                 IF marks = {} THEN Len(data)
                 ELSE (CHOOSE i \in marks : \A k \in marks : i <= k) + 1
         IN [state |-> "ok", code |-> data[2],
             messageId |-> data[3] * 256 + data[4],
             payload |-> IF payloadStart < Len(data)
                         THEN cborDecode(SliceFrom(data, payloadStart))
                         ELSE NullPayload]

(***************************************************************************)
(* Messages of the device, encoded as RFC 7252 lays options out: a header  *)
(* byte with the delta nibble and the length nibble, the extension of the  *)
(* delta, the extension of the length, the value.                          *)
(***************************************************************************)
OptionNibble(x) == IF x < 13 THEN x ELSE IF x < 269 THEN 13 ELSE 14
OptionExtension(x) ==
    IF x < 13 THEN << >>
    ELSE IF x < 269 THEN <<x - 13>>
    ELSE <<(x - 269) \div 256, (x - 269) % 256>>
WireOption(delta, value) ==
    <<OptionNibble(delta) * 16 + OptionNibble(Len(value))>>
        \o OptionExtension(delta) \o OptionExtension(Len(value)) \o value

\* options is a sequence of [number, value], ascending in number
RECURSIVE WireOptions(_, _)
WireOptions(options, prevOption) ==
    IF options = << >> THEN << >>
    ELSE WireOption(options[1].number - prevOption, options[1].value)
         \o WireOptions(Tail(options), options[1].number)

\* an acknowledgement (type 2) of the device
ResponseBytes(r) ==
    <<64 + 32 + Len(r.token), r.code, (r.mid \div 256) % 256, r.mid % 256>>
        \o r.token \o WireOptions(r.options, 0)
        \o (IF r.marker THEN <<PayloadMarker>> \o r.payload ELSE << >>)

\* options of the device's responses: none; Content-Format; an ETag whose
\* value holds the byte 0xFF; a Location-Path of 268 characters, whose
\* length extension is the byte 0xFF; ETag and Content-Format
ResponseOptions ==
    {<< >>,
     <<[number |-> 12, value |-> <<60>>]>>,
     <<[number |-> 4, value |-> <<255>>]>>,
     <<[number |-> 8, value |-> [k \in 1..268 |-> 97]]>>,
     <<[number |-> 4, value |-> <<1>>], [number |-> 12, value |-> <<1, 4>>]>>}

Responses ==
    {r \in [code : {69}, mid : {1}, token : {<< >>, <<255>>},
            options : ResponseOptions,
            payload : {<< >>, <<5>>, <<24, 255>>}, marker : BOOLEAN] :
        r.marker <=> (r.payload # << >>)}

\* arguments of buildMessage in the codec runs
SegmentLengths == {0, 1, 12, 13, 268, 269}
Paths ==
    UNION {[1..n -> SegmentLengths] : n \in 0..MaxSegments}
Queries == {<< >>, <<1>>, <<13>>, <<13, 269>>}
BuildArgs ==
    [method : 1..5, mid : {1, MaxMessageId}, path : Paths, query : Queries,
     payload : {-1, 5, 255}]

InitCodec ==
    /\ variant \in {"server", "standalone"}
    /\ InitConnected
    /\ InitFresh \/ InitAged
    /\ InitNoStream
    /\ \/ /\ req \in BuildArgs
          /\ req.mid = messageId[coap]
          /\ rsp = NoRsp
          /\ message = << >>
       \/ /\ req = NoReq
          /\ rsp \in Responses
          /\ message = ResponseBytes(rsp)
    /\ parsed = NotParsed
    /\ last = Event("init", 0, NoMsg)
    /\ InitNoWeb

\* buildMessage for the arguments req; the message ID is the counter of
\* the client, which the standalone client's buildMessage also increments
\* (the server client increments it in request())
BuildMessage ==
    /\ req # NoReq
    /\ message = << >>
    /\ message' = buildMessage(variant, req.method, req.path, req.query,
                               req.payload, messageId[coap])
    /\ messageId' = IF variant = "standalone"
                    THEN [messageId EXCEPT ![coap] = @ + 1]
                    ELSE messageId
    /\ last' = Event("build", 0, NoMsg)
    /\ UNCHANGED <<webVars, variant, coap, connVars, streamVars, req, rsp, parsed,
                   pendingRequests, nRequests, client, key, wireId, promise,
                   result, timer, writes, settles, removals>>

\* parseResponse for the bytes of message
ParseResponse ==
    /\ message # << >>
    /\ parsed.state = "none"
    /\ parsed' = parseResponse(message)
    /\ last' = Event("parse", 0, NoMsg)
    /\ UNCHANGED <<webVars, variant, coap, corrVars, connVars, streamVars, req, rsp,
                   message>>

NextCodec ==
    \/ BuildMessage
    \/ ParseResponse

SpecCodec == InitCodec /\ [][NextCodec]_vars

(***************************************************************************)
(* Properties of the CoAP message codec.                                   *)
(***************************************************************************)
\* the payload parse is to return for a payload argument of buildMessage
ExpectedPayload(payload) ==
    IF payload = -1 THEN NullPayload ELSE ValuePayload(payload)

\* the options buildMessage is to emit for a URI: Uri-Path (11) for every
\* non-empty path piece, Content-Format (12), Uri-Query (15) for every
\* non-empty query piece
RECURSIVE PathOptions(_, _)
PathOptions(path, i) ==
    IF i > Len(path) THEN << >>
    ELSE (IF path[i] = 0 THEN << >>
          ELSE <<[number |-> 11, value |-> SegmentChars(i, path[i])]>>)
         \o PathOptions(path, i + 1)
RECURSIVE QueryOptions(_, _)
QueryOptions(query, j) ==
    IF j > Len(query) THEN << >>
    ELSE (IF query[j] = 0 THEN << >>
          ELSE <<[number |-> 15, value |-> QueryChars(j, query[j])]>>)
         \o QueryOptions(query, j + 1)
ContentFormatValue(v) == IF v = "server" THEN <<1, 4>> ELSE <<60>>
ExpectedOptions(v, path, query) ==
    PathOptions(path, 1)
        \o <<[number |-> 12, value |-> ContentFormatValue(v)]>>
        \o QueryOptions(query, 1)

\* the number of the option before option k of a list
PrevNumber(options, k) == IF k = 1 THEN 0 ELSE options[k - 1].number

\* what encodeOptions pushes for option o at delta d
PushedOption(v, d, o) ==
    IF o.number = 11 THEN SegmentOption(v, d, o.value)
    ELSE IF o.number = 15 THEN QueryOption(v, d, o.value)
    ELSE ContentFormatOption(v, 12 - d)

\* C17: the payload parseResponse returns for a message of the device is
\* the decoded bytes after the true payload marker, and null when the
\* message has no marker, whatever bytes its token, option extensions and
\* option values hold.
C17_PayloadAfterTrueMarker ==
    (rsp # NoRsp /\ parsed.state = "ok") =>
        parsed.payload = IF rsp.marker THEN cborDecode(rsp.payload)
                         ELSE NullPayload

\* C18: parseResponse of the message buildMessage built gives back the
\* method code and the payload of the build, for every method, every URI of
\* the runs and every payload (parseResponse returns version, type, code,
\* messageId and payload: the path segments are not part of its result).
C18_RoundTrip ==
    (req # NoReq /\ parsed.state = "ok") =>
        /\ parsed.code = req.method
        /\ parsed.payload = ExpectedPayload(req.payload)

\* C19: every Uri-Path segment and Uri-Query item of a built message, first
\* or repeated, of any length, is pushed as one header byte with the delta
\* nibble and the length nibble, the length extension, and the value bytes.
C19_OptionEncoding ==
    (req # NoReq /\ message # << >>) =>
        LET options == ExpectedOptions(variant, req.path, req.query)
        IN \A k \in 1..Len(options) :
              options[k].number \in {11, 15} =>
                  LET d == options[k].number - PrevNumber(options, k)
                  IN ToBytes(PushedOption(variant, d, options[k]))
                         = WireOption(d, options[k].value)

\* C20: a built message is the header 0x40, method, message ID high byte,
\* message ID low byte, then the options Uri-Path per non-empty segment,
\* Content-Format, Uri-Query per item, in that order with their deltas, then
\* the marker 0xFF and the encoded payload exactly when a payload is given.
C20_MessageLayout ==
    (req # NoReq /\ message # << >>) =>
        message = <<64, req.method, req.mid \div 256, req.mid % 256>>
                      \o WireOptions(ExpectedOptions(variant, req.path,
                                                     req.query), 0)
                      \o (IF req.payload = -1 THEN << >>
                          ELSE <<PayloadMarker>>
                               \o cborEncode(req.payload))

(***************************************************************************)
(* Dispatch of decoded frames to the correlator.  A handleData call hands  *)
(* every frame it decodes, in order, to parseResponse and to the entry of  *)
(* pendingRequests the message ID names.  The fields the dispatch touches  *)
(* are carried in a record st while the frames of one call are handled.    *)
(***************************************************************************)
Correlator(c) ==
    [pending |-> pendingRequests[c], promise |-> promise, result |-> result,
     timer |-> timer, settles |-> settles, removals |-> removals]

\* response.payload as the promise carries it: the decoded number, -1 for
\* null, -2 for bytes cbor-x could not decode
PayloadOf(p) ==
    IF p.kind = "value" THEN p.value ELSE IF p.kind = "null" THEN -1 ELSE -2

\* the branch if (pending) { ... } for the parsed response m; the server
\* client clears the timer, the standalone client does not
SettleEntry(v, st, m) ==
    LET q == Lookup(st.pending, m.messageId)
        open == st.promise[q] = "pending"
        ok == IsSuccess(m.code)
        res == IF ok THEN Fulfilled(PayloadOf(m.payload))
               ELSE DeviceError(m.code, PayloadOf(m.payload))
    IN IF q = 0 THEN st
       ELSE [pending |-> MapDelete(st.pending, m.messageId),
             promise |-> IF open
                         THEN [st.promise EXCEPT
                                  ![q] = IF ok THEN "fulfilled" ELSE "rejected"]
                         ELSE st.promise,
             result |-> IF open THEN [st.result EXCEPT ![q] = res]
                        ELSE st.result,
             timer |-> IF v = "server" /\ st.timer[q] = "armed"
                       THEN [st.timer EXCEPT ![q] = "cleared"]
                       ELSE st.timer,
             settles |-> [st.settles EXCEPT ![q] = @ + 1],
             removals |-> [st.removals EXCEPT ![q] = @ + 1]]

\* a dispatch that treats every frame as a CoAP frame
DispatchAnyType(v, st, frame) ==
    LET m == parseResponse(frame.data)
    IN IF m.state = "error" THEN st ELSE SettleEntry(v, st, m)

\* what one decoded frame does: a 'C' frame is parsed and dispatched, a
\* parse error is caught and logged, any other frame touches nothing
DispatchFrame(v, st, frame) ==
    IF frame.type # TypeCoap THEN st
    ELSE LET m == parseResponse(frame.data)
         IN IF m.state = "error" THEN st ELSE SettleEntry(v, st, m)

\* a dispatch that stops at the first frame parseResponse throws on
RECURSIVE DispatchUntilError(_, _, _)
DispatchUntilError(v, st, frames) ==
    IF frames = << >> THEN st
    ELSE IF frames[1].type = TypeCoap
            /\ parseResponse(frames[1].data).state = "error"
    THEN st
    ELSE DispatchUntilError(v, DispatchFrame(v, st, frames[1]), Tail(frames))

\* the frames of one handleData call, in the order they were decoded
RECURSIVE DispatchAll(_, _, _)
DispatchAll(v, st, frames) ==
    IF frames = << >> THEN st
    ELSE DispatchAll(v, DispatchFrame(v, st, frames[1]), Tail(frames))

\* handleData(data) with requests outstanding: Buffer.concat, the loop, and
\* the dispatch of every frame the loop decodes
ReceiveData(n) ==
    /\ stream # << >>
    /\ coap # 0
    /\ n \in 1..(Len(stream) - pos)
    /\ \E out \in {RunLoop(variant,
                             receiveBuffer \o SubSeq(stream, pos + 1, pos + n),
                             << >>)} :
       \E st \in {DispatchAll(variant, Correlator(coap), out.frames)} :
          /\ receiveBuffer' = out.buffer
          /\ decoded' = decoded \o out.frames
          /\ pendingRequests' = [pendingRequests EXCEPT ![coap] = st.pending]
          /\ promise' = st.promise
          /\ result' = st.result
          /\ timer' = st.timer
          /\ settles' = st.settles
          /\ removals' = st.removals
    /\ pos' = pos + n
    /\ last' = Event("data", 0, NoMsg)
    /\ UNCHANGED <<webVars, variant, coap, connVars, codecVars, stream, sent,
                   messageId, nRequests, client, key, wireId, writes>>

\* the device's acknowledgement 2.05 with payload 5 for message ID mid, and
\* the cut-off messages of fewer than 4 bytes
CoapReply(mid) == <<96, 69, mid \div 256, mid % 256, PayloadMarker, 5>>
ShortMessages == {SubSeq(CoapReply(1), 1, k) : k \in 0..3}

ReplyItems ==
    [type : {TypeCoap}, data : {CoapReply(1), CoapReply(2)},
     doubled : {FALSE}, at : {0}, to : {0}]
ShortItems ==
    [type : {TypeCoap}, data : ShortMessages, doubled : BOOLEAN,
     at : {0}, to : {0}]
AnnounceItems ==
    [type : {TypeAnnounce}, data : {<<96, 69, 0, 1>>}, doubled : {FALSE},
     at : {0}, to : {0}]

\* ping replies whose content reads as an acknowledgement
PingItems ==
    [type : {TypePing}, data : {CoapReply(1)}, doubled : BOOLEAN,
     at : {0}, to : {0}]

InboundLines ==
    {<<x>> : x \in ShortItems}
    \cup {<<x, a>> : x \in ShortItems, a \in ReplyItems}
    \cup {<<a, x, b>> : a \in ReplyItems, x \in ShortItems, b \in ReplyItems}
    \cup {<<n, a>> : n \in AnnounceItems, a \in ReplyItems}
    \cup {<<p, n>> : p \in PingItems, n \in AnnounceItems}
    \cup {<<p, a>> : p \in PingItems, a \in ReplyItems}

InitInbound ==
    /\ variant \in {"server", "standalone"}
    /\ InitConnected
    /\ InitFresh
    /\ sent \in InboundLines
    /\ stream = LineBytes(sent)
    /\ pos = 0
    /\ receiveBuffer = << >>
    /\ decoded = << >>
    /\ InitNoCodec
    /\ last = Event("init", 0, NoMsg)
    /\ InitNoWeb

\* the requests are written before the device answers
NextInbound ==
    \/ \E r \in Requests : pos = 0 /\ Request(r)
    \/ \E r \in Requests : pos = 0 /\ SA_Request(r)
    \/ \E n \in 1..(3 * 14) : ReceiveData(n)

SpecInbound == InitInbound /\ [][NextInbound]_vars

(***************************************************************************)
(* Properties of the inbound dispatch.                                     *)
(***************************************************************************)
\* a decoded 'C' frame whose content is shorter than the CoAP header
IsShort(frame) == frame.type = TypeCoap /\ Len(frame.data) < 4
\* the frames the step has decoded
NewFrames == SubSeq(decoded', Len(decoded) + 1, Len(decoded'))
\* item j of the line is a reply that follows a cut-off message
FollowsShort(j) ==
    /\ sent[j] \in ReplyItems
    /\ \E i \in 1..(j - 1) : sent[i] \in ShortItems
\* the message ID in the header of reply item j
ReplyId(j) == sent[j].data[3] * 256 + sent[j].data[4]

\* C21: a handleData call whose decoded frames are all CoAP frames shorter
\* than the 4-byte header leaves pendingRequests and every promise, result
\* and timer as they were; and once the line is delivered, every reply that
\* follows such a frame has been decoded and has fulfilled the request
\* registered under its message ID.
C21_MalformedDropped ==
    [][last'.op = "data" =>
          /\ (NewFrames # << >>
              /\ \A k \in 1..Len(NewFrames) : IsShort(NewFrames[k]))
                 => UNCHANGED corrVars
          /\ (pos' = Len(stream)) =>
                 \A j \in 1..Len(sent) :
                     FollowsShort(j) =>
                         /\ \E k \in 1..Len(decoded') :
                                decoded'[k] = FrameOf(sent[j])
                         /\ \A r \in 1..nRequests :
                                key[r] = ReplyId(j) =>
                                    /\ promise'[r] = "fulfilled"
                                    /\ result'[r] = Fulfilled(5)]_vars

\* a cut-off message was decoded while a request was pending, the reply
\* behind it has fulfilled its request, and another request is still pending
W_C21_ReplyAfterMalformed ==
    /\ \E k \in 1..Len(decoded) : IsShort(decoded[k])
    /\ \E j \in 1..Len(sent) :
           /\ FollowsShort(j)
           /\ \E r \in 1..nRequests :
                  key[r] = ReplyId(j) /\ promise[r] = "fulfilled"
    /\ \E r \in 1..nRequests : promise[r] = "pending"
    /\ pos = Len(stream)

\* the message ID in the content of frame f, read as a CoAP header
ContentId(f) == f.data[3] * 256 + f.data[4]

\* C31: a handleData call that decodes only frames that are not CoAP data
\* frames (announcements, ping replies) leaves pendingRequests, the
\* message-ID counter and every promise, result and timer as they were.
C31_OtherFramesInert ==
    [][(last'.op = "data" /\ NewFrames # << >>
        /\ \A k \in 1..Len(NewFrames) : NewFrames[k].type # TypeCoap)
          => UNCHANGED corrVars]_vars

\* an announcement and a ping reply have been decoded whose content reads as
\* the acknowledgement of a request that is still pending
W_C31_OtherFrameWhilePending ==
    /\ \E k \in 1..Len(decoded) : decoded[k].type = TypeAnnounce
    /\ \E k \in 1..Len(decoded) :
           /\ decoded[k].type = TypePing
           /\ \E r \in 1..nRequests :
                  key[r] = ContentId(decoded[k]) /\ promise[r] = "pending"

(***************************************************************************)
(* The device answers requests.  A response is tied to the request it      *)
(* answers: it carries the message ID written in that request's header and *)
(* a payload that tells the requests apart (the request's number).  The    *)
(* device may answer late, after the timer of the request has fired, after *)
(* the counter has wrapped, or after the server has reconnected.           *)
(***************************************************************************)
\* the response of the device to request q, as parseResponse returns it
ResponseTo(q, code) ==
    [state |-> "ok", messageId |-> wireId[q], code |-> code,
     payload |-> [kind |-> "value", value |-> q, bytes |-> << >>]]

\* serial.on('data') / MVDCTClient.handleData with the response of the device
\* to request q: handleData / handleResponse of the client in use
DeviceResponse(q, code) ==
    /\ coap # 0
    /\ q \in 1..nRequests
    /\ writes[q] > 0
    /\ variant = "server" =>
           \E p \in Ports : portState[p] = "open" /\ attached[p] > 0
    /\ \E st \in {SettleEntry(variant, Correlator(coap), ResponseTo(q, code))} :
          /\ pendingRequests' = [pendingRequests EXCEPT ![coap] = st.pending]
          /\ promise' = st.promise
          /\ result' = st.result
          /\ timer' = st.timer
          /\ settles' = st.settles
          /\ removals' = st.removals
    /\ last' = Event("response", q,
                     [messageId |-> wireId[q], code |-> code, payload |-> q])
    /\ UNCHANGED <<webVars, byteVars, variant, coap, connVars, messageId,
                   nRequests, client, key, wireId, writes>>

\* the requests of the server go through executeCoAP, which reconnects when
\* the port is not open; the standalone client has no reconnect
NextDevice ==
    \/ \E r \in Requests : ExecuteCoAP(r)
    \/ \E p \in Ports : OpenSucceeds(p)
    \/ \E p \in Ports : OpenFails(p)
    \/ \E p \in Ports : SerialClose(p)
    \/ \E r \in Requests : TimeoutFires(r)
    \/ \E r \in Requests : SA_Request(r)
    \/ \E r \in Requests : SA_TimeoutFires(r)
    \/ \E q \in Requests, code \in Codes : DeviceResponse(q, code)

SpecDevice == Init /\ [][NextDevice]_vars

\* C32: a promise is fulfilled only by the response the device produced for
\* that very request, and with the payload of that response.
C32_OwnResponseOnly ==
    [][\A r \in Requests :
          (promise[r] = "pending" /\ promise'[r] = "fulfilled") =>
              /\ last'.op = "response"
              /\ last'.req = r
              /\ result'[r] = Fulfilled(last'.msg.payload)]_vars

\* C33: the entry of a request is in pendingRequests, under the request's
\* key, when the step that writes its frame is done, and the device's
\* response to a request is only processed after the request was registered.
C33_RegisteredBeforeWritten ==
    [][\A r \in Requests :
          /\ writes'[r] > writes[r] =>
                 /\ MapHas(pendingRequests'[client'[r]], key'[r])
                 /\ pendingRequests'[client'[r]][key'[r]] = r
          /\ (last'.op = "response" /\ last'.req = r) =>
                 (key[r] # 0 /\ promise[r] # "unsent")]_vars

\* the response to a request that was written once has been processed and
\* has fulfilled that request
W_C33_ResponseAfterRegistration ==
    /\ last.op = "response"
    /\ writes[last.req] = 1
    /\ promise[last.req] = "fulfilled"
    /\ result[last.req] = Fulfilled(last.req)

\* C34: in the standalone client the key a request is registered under is
\* the 16-bit message ID in bytes 2-3 of the header built for it, for every
\* request however many were built before, and the device's response to a
\* pending request finds the entry and settles the request.
C34_KeyIsHeaderId ==
    [][variant = "standalone" =>
          \A r \in Requests :
              /\ Registers(r) => key'[r] = wireId'[r]
              /\ (last'.op = "response" /\ last'.req = r
                    /\ promise[r] = "pending") => Settled(r)']_vars

\* the step starts an initializeSerial that creates a SerialPort
StartsOpen == nPorts' > nPorts
\* the step is the open callback of port p
CompletesOpen(p) == portState[p] = "opening" /\ portState'[p] = "open"

\* C35: in the direct-MUP1 server no initializeSerial creates a port while
\* an earlier open is still in progress; the CoAPClient created when the
\* open of a port completes is bound to that port and its handlers are
\* attached to that port; and isConnected is true only while the port of
\* the client in use is open.
C35_SingleOpenInProgress ==
    [][/\ StartsOpen => \A p \in Ports : portState[p] # "opening"
       /\ \A p \in Ports :
             CompletesOpen(p) =>
                 /\ serialOf'[coap'] = p
                 /\ attached'[p] = attached[p] + 1
       /\ (isConnected' /\ coap' # 0) =>
              portState'[serialOf'[coap']] = "open"]_vars

(***************************************************************************)
(* The CLI web server (web-server.js): executeMvdct with its result cache  *)
(* and request queue, processQueue, and executeMvdctRaw with the handlers  *)
(* of the spawned child and its two timers.  An argument list is given by  *)
(* what the code reads of it: whether it includes 'get', whether it        *)
(* includes 'set', and the rest (the path).  The timers are not modelled   *)
(* as numbers: an armed timer may fire at any later moment.                *)
(***************************************************************************)
coapVars == <<variant, coap, corrVars, last, connVars, byteVars>>

\* argument lists of the runs: two GET commands and a SET command
Commands ==
    {[get |-> TRUE, set |-> FALSE, path |-> 1],
     [get |-> TRUE, set |-> FALSE, path |-> 2],
     [get |-> FALSE, set |-> TRUE, path |-> 1]}
\* exit codes of a child
ExitCodes == {0, 1}

\* args.includes('get') && !args.includes('set')
IsGetCommand(a) == a.get /\ ~a.set

\* resultCache is a Map: its entries in insertion order, each with its key
\* (JSON.stringify(args)), the execution the result is of, and timestamp
CacheIndex(cache, k) ==
    IF \E i \in 1..Len(cache) : cache[i].key = k
    THEN CHOOSE i \in 1..Len(cache) : cache[i].key = k
    ELSE 0
CacheEntry(k, of, t) == [key |-> k, of |-> of, timestamp |-> t]
\* Map.set: an existing key keeps its place
CacheSet(cache, e) ==
    LET i == CacheIndex(cache, e.key)
    IN IF i = 0 THEN Append(cache, e) ELSE [cache EXCEPT ![i] = e]
\* Map.delete
CacheDelete(cache, k) ==
    LET Other(e) == e.key # k IN SelectSeq(cache, Other)

\* an entry is served up to and including the age CACHE_TTL
IsFreshInclusive(age) == age <= CACHE_TTL
\* if (age < CACHE_TTL)
IsFresh(age) == age < CACHE_TTL

\* a cache that is never cut
EvictNone(cache) == cache
\* if (resultCache.size > 100) delete the first key
Evict(cache) == IF Len(cache) > CacheLimit THEN Tail(cache) ELSE cache

\* if (commandHistory.length > 100) commandHistory = slice(-100)
TrimHistory(h) ==
    IF Len(h) > HistoryLimit
    THEN SubSeq(h, Len(h) - HistoryLimit + 1, Len(h)) ELSE h

\* a queue served from its end
QueuePop(q) == [item |-> q[Len(q)], rest |-> SubSeq(q, 1, Len(q) - 1)]
\* requestQueue.shift()
QueueShift(q) == [item |-> Head(q), rest |-> Tail(q)]

\* processQueue() up to the await, for the queue as it stands: when it is
\* not busy it takes the next entry and executeMvdctRaw spawns the child
\* and arms the 15 s timer (ok: the child could be started)
ProcessQueue(queue, ok) ==
    IF isProcessing \/ queue = << >>
    THEN /\ requestQueue' = queue
         /\ UNCHANGED <<isProcessing, proc, timeoutId, spawned>>
    ELSE LET k == QueueShift(queue).item
         IN /\ requestQueue' = QueueShift(queue).rest
            /\ isProcessing' = TRUE
            /\ proc' = [proc EXCEPT ![k] = IF ok THEN "running" ELSE "failing"]
            /\ timeoutId' = [timeoutId EXCEPT ![k] = "armed"]
            /\ spawned' = Append(spawned, k)

\* processQueue without its finally block's setImmediate(processQueue)
SettleNoImmediate(k, state, v) ==
    IF outcome[k] = "pending"
    THEN /\ outcome' = [outcome EXCEPT ![k] = state]
         /\ settledWith' = [settledWith EXCEPT ![k] = v]
         /\ isProcessing' = FALSE
         /\ UNCHANGED immediates
    ELSE UNCHANGED <<outcome, settledWith, isProcessing, immediates>>

\* resolve or reject of the promise of executeMvdctRaw for call k with v,
\* and what processQueue does once its await returns: resolve or reject
\* the caller's promise, isProcessing = false, setImmediate(processQueue)
\* when the queue is not empty.  A settled promise ignores the call.
Settle(k, state, v) ==
    IF outcome[k] = "pending"
    THEN /\ outcome' = [outcome EXCEPT ![k] = state]
         /\ settledWith' = [settledWith EXCEPT ![k] = v]
         /\ isProcessing' = FALSE
         /\ immediates' = IF requestQueue # << >> THEN immediates + 1
                          ELSE immediates
    ELSE UNCHANGED <<outcome, settledWith, isProcessing, immediates>>

\* executeMvdct(args)
ExecuteMvdct(a, ok) ==
    /\ web = "mvdct"
    /\ nCalls < MaxCalls
    /\ LET k == nCalls + 1
           i == IF IsGetCommand(a) THEN CacheIndex(resultCache, a) ELSE 0
       IN /\ nCalls' = k
          /\ args' = [args EXCEPT ![k] = a]
          /\ IF i # 0 /\ IsFresh(now - resultCache[i].timestamp)
             THEN /\ outcome' = [outcome EXCEPT ![k] = "resolved"]
                  /\ settledWith' =
                         [settledWith EXCEPT
                             ![k] = [kind |-> "cached",
                                     of |-> resultCache[i].of]]
                  /\ UNCHANGED <<resultCache, requestQueue, isProcessing,
                                 proc, timeoutId, spawned>>
             ELSE /\ resultCache' = IF i # 0 THEN CacheDelete(resultCache, a)
                                    ELSE resultCache
                  /\ outcome' = [outcome EXCEPT ![k] = "pending"]
                  /\ ProcessQueue(Append(requestQueue, k), ok)
                  /\ UNCHANGED settledWith
    /\ UNCHANGED <<coapVars, web, immediates, killTimer, killed, signals,
                   closeEvent, commandHistory, now>>

\* the setImmediate(processQueue) callback
Immediate(ok) ==
    /\ web = "mvdct"
    /\ immediates > 0
    /\ immediates' = immediates - 1
    /\ ProcessQueue(requestQueue, ok)
    /\ UNCHANGED <<coapVars, web, nCalls, args, killTimer, killed, signals,
                   outcome, settledWith, closeEvent, resultCache,
                   commandHistory, now>>

\* proc.on('close') of the child of call k, both handlers: history, cache,
\* resolve, clearTimeout.  After a failed spawn the event may or may not
\* come, and its code is not 0.
ProcClose(k, code) ==
    /\ web = "mvdct"
    /\ proc[k] \in {"running", "failed"}
    /\ proc[k] = "failed" => code # 0
    /\ proc' = [proc EXCEPT ![k] = "closed"]
    /\ closeEvent' = [closeEvent EXCEPT ![k] = [code |-> code, at |-> now]]
    /\ commandHistory' = TrimHistory(Append(commandHistory, k))
    /\ resultCache' =
           IF IsGetCommand(args[k]) /\ code = 0
           THEN Evict(CacheSet(resultCache, CacheEntry(args[k], k, now)))
           ELSE resultCache
    /\ Settle(k, "resolved", [kind |-> "exec", of |-> k])
    /\ timeoutId' = [timeoutId EXCEPT ![k] = IF @ = "armed" THEN "cleared"
                                             ELSE @]
    /\ UNCHANGED <<coapVars, web, nCalls, args, requestQueue, killTimer,
                   killed, signals, spawned, now>>

\* proc.on('error'): the child could not be started
ProcError(k) ==
    /\ web = "mvdct"
    /\ proc[k] = "failing"
    /\ proc' = [proc EXCEPT ![k] = "failed"]
    /\ Settle(k, "rejected", [kind |-> "error", of |-> k])
    /\ UNCHANGED <<coapVars, web, nCalls, args, requestQueue, timeoutId,
                   killTimer, killed, signals, closeEvent, spawned,
                   resultCache, commandHistory, now>>

\* proc.kill(signal): the signal is sent when the child runs, and
\* proc.killed is set once a signal has been sent
Kill(k, signal) ==
    IF proc[k] = "running"
    THEN /\ signals' = [signals EXCEPT ![k] = Append(@, signal)]
         /\ killed' = [killed EXCEPT ![k] = TRUE]
    ELSE UNCHANGED <<signals, killed>>

\* the 15 s timer of call k fires: SIGTERM, the 3 s timer, reject
CommandTimeout(k) ==
    /\ web = "mvdct"
    /\ timeoutId[k] = "armed"
    /\ timeoutId' = [timeoutId EXCEPT ![k] = "fired"]
    /\ Kill(k, "SIGTERM")
    /\ killTimer' = [killTimer EXCEPT ![k] = "armed"]
    /\ Settle(k, "rejected", [kind |-> "timeout", of |-> k])
    /\ UNCHANGED <<coapVars, web, nCalls, args, requestQueue, proc,
                   closeEvent, spawned, resultCache, commandHistory, now>>

\* the 3 s timer of call k fires: if (!proc.killed) proc.kill('SIGKILL')
KillTimeout(k) ==
    /\ web = "mvdct"
    /\ killTimer[k] = "armed"
    /\ killTimer' = [killTimer EXCEPT ![k] = "fired"]
    /\ IF ~killed[k] THEN Kill(k, "SIGKILL") ELSE UNCHANGED <<signals, killed>>
    /\ UNCHANGED <<coapVars, web, nCalls, args, requestQueue, isProcessing,
                   immediates, proc, timeoutId, outcome, settledWith,
                   closeEvent, spawned, resultCache, commandHistory>>
    /\ UNCHANGED now

\* time passes
TickSteps == {CACHE_TTL - 1, CACHE_TTL}
Tick(d) ==
    /\ web = "mvdct"
    /\ now + d <= MaxTime
    /\ now' = now + d
    /\ UNCHANGED <<coapVars, web, nCalls, args, requestQueue, isProcessing,
                   immediates, proc, timeoutId, killTimer, killed, signals,
                   outcome, settledWith, closeEvent, spawned, resultCache,
                   commandHistory>>

\* a cache and a history that earlier commands have filled up to their
\* limits: n entries of other GET commands, n history records
EarlierCache(n) ==
    [i \in 1..n |->
        CacheEntry([get |-> TRUE, set |-> FALSE, path |-> 100 + i], 0, 0)]
EarlierHistory(n) == [i \in 1..n |-> 0]

InitWeb ==
    /\ variant = "server"
    /\ InitConnected
    /\ InitFresh
    /\ InitNoBytes
    /\ last = Event("init", 0, NoMsg)
    /\ web = "mvdct"
    /\ InitNoCalls

\* the queue runs: one GET command and the SET command, children that run
\* on after the 15 s timer, children that cannot be started
QueueCommands == {a \in Commands : a.path = 1}

InitQueue ==
    /\ InitWeb
    /\ resultCache = << >>
    /\ commandHistory = << >>

NextQueue ==
    \/ \E a \in QueueCommands, ok \in BOOLEAN : ExecuteMvdct(a, ok)
    \/ \E ok \in BOOLEAN : Immediate(ok)
    \/ \E k \in Calls, code \in ExitCodes : ProcClose(k, code)
    \/ \E k \in Calls : ProcError(k)
    \/ \E k \in Calls : CommandTimeout(k)
    \/ \E k \in Calls : KillTimeout(k)

SpecQueue == InitQueue /\ [][NextQueue]_vars

\* the cache runs: every child is started and closes before its 15 s timer
\* fires; the cache and the history are empty or full
InitCache ==
    /\ InitWeb
    /\ \/ resultCache = << >> /\ commandHistory = << >>
       \/ /\ resultCache = EarlierCache(CacheLimit)
          /\ commandHistory = EarlierHistory(HistoryLimit)

NextCache ==
    \/ \E a \in Commands : ExecuteMvdct(a, TRUE)
    \/ Immediate(TRUE)
    \/ \E k \in Calls, code \in ExitCodes : ProcClose(k, code)
    \/ \E d \in TickSteps : Tick(d)

SpecCache == InitCache /\ [][NextCache]_vars

\* the order runs: as the queue runs, without the 3 s timers, which touch
\* neither the queue nor a promise
NextFifo ==
    \/ \E a \in QueueCommands, ok \in BOOLEAN : ExecuteMvdct(a, ok)
    \/ \E ok \in BOOLEAN : Immediate(ok)
    \/ \E k \in Calls, code \in ExitCodes : ProcClose(k, code)
    \/ \E k \in Calls : ProcError(k)
    \/ \E k \in Calls : CommandTimeout(k)

SpecFifo == InitQueue /\ [][NextFifo]_vars

\* the child of call k closes, cannot be started, or reaches its 15 s timer
ChildEnds(k) ==
    \/ proc[k] = "running" /\ \E code \in ExitCodes : ProcClose(k, code)
    \/ ProcError(k)
    \/ CommandTimeout(k)

\* the order runs where the event loop runs every setImmediate callback and
\* every child closes, errors or reaches its 15 s timer
SpecLive ==
    /\ InitQueue
    /\ [][NextFifo]_vars
    /\ WF_vars(\E ok \in BOOLEAN : Immediate(ok))
    /\ \A k \in Calls : WF_vars(ChildEnds(k))

(***************************************************************************)
(* Properties of the CLI web server.                                       *)
(***************************************************************************)
\* the children that have been started and have not closed
Alive == {k \in Calls : proc[k] = "running"}

\* C22: at every moment at most one spawned child is alive, whatever the
\* calls and whatever mix of exits, spawn errors and 15 s timeouts: no
\* command is spawned while a timed-out child is still running.
C22_OneChildAlive == Cardinality(Alive) <= 1

\* the calls made so far that were not served from the cache, in call order
NotCached(k) == settledWith[k].kind # "cached"
QueuedCalls == SelectSeq([k \in 1..nCalls |-> k], NotCached)

\* C23: the commands not served from the cache are spawned in the order of
\* their executeMvdct calls, and a promise that is settled by an execution
\* is settled by the execution of its own command.
C23_Fifo ==
    /\ Len(spawned) <= Len(QueuedCalls)
    /\ \A i \in 1..Len(spawned) : spawned[i] = QueuedCalls[i]
    /\ \A k \in Calls :
           settledWith[k].kind \in {"exec", "timeout", "error"} =>
               /\ settledWith[k].of = k
               /\ \E i \in 1..Len(spawned) : spawned[i] = k
               /\ settledWith[k].kind = "exec" <=> proc[k] = "closed"
                                                   /\ outcome[k] = "resolved"

\* three commands were queued and spawned in call order, the first of them
\* ran into its timeout, the last one has closed
W_C23_ThreeInOrder ==
    /\ spawned = <<1, 2, 3>>
    /\ settledWith[1].kind = "timeout"
    /\ settledWith[3].kind = "exec"

\* the call made by the step, if any
Called(k) == outcome[k] = "none" /\ outcome'[k] # "none"

\* C24: a result served from resultCache is the result of an execution of
\* the identical argument list, which includes 'get' and not 'set', that
\* closed with success less than CACHE_TTL ms before the lookup; an entry
\* of CACHE_TTL ms or more is deleted by the lookup and the command is
\* queued.
C24_CacheServesFresh ==
    [][\A k \in Calls :
          Called(k) =>
              LET a == args'[k]
                  i == CacheIndex(resultCache, a)
                  j == settledWith'[k].of
              IN /\ settledWith'[k].kind = "cached" =>
                        /\ j \in 1..nCalls
                        /\ args[j] = a
                        /\ a.get /\ ~a.set
                        /\ closeEvent[j].code = 0
                        /\ now - closeEvent[j].at < CACHE_TTL
                 /\ (a.get /\ ~a.set /\ i # 0
                     /\ now - resultCache[i].timestamp >= CACHE_TTL) =>
                        /\ CacheIndex(resultCache', a) = 0
                        /\ outcome'[k] = "pending"
                        /\ \/ \E n \in 1..Len(requestQueue') :
                                  requestQueue'[n] = k
                           \/ \E n \in 1..Len(spawned') : spawned'[n] = k]_vars

\* a call was served from the cache CACHE_TTL - 1 ms after the execution
\* closed, and a later call of the same command, CACHE_TTL ms after it, was
\* queued
W_C24_HitThenExpired ==
    \E k \in Calls, n \in Calls :
        /\ k < n
        /\ args[k] = args[n]
        /\ settledWith[k].kind = "cached"
        /\ outcome[n] = "pending"
        /\ now = closeEvent[settledWith[k].of].at + CACHE_TTL

\* the close event of the child of call k is handled by the step
Closes(k) == proc[k] = "running" /\ proc'[k] = "closed"

\* C25: resultCache holds at most CacheLimit entries after any command
\* completes; an insertion into a full cache evicts the oldest-inserted
\* key.
C25_CacheBounded ==
    [][\A k \in Calls :
          Closes(k) =>
              /\ Len(resultCache') <= CacheLimit
              /\ (Len(resultCache) = CacheLimit
                  /\ resultCache' # resultCache
                  /\ CacheIndex(resultCache, args[k]) = 0) =>
                     resultCache' = Append(Tail(resultCache),
                                           CacheEntry(args[k], k, now))]_vars

\* the full cache has taken the results of two new commands and has lost
\* its two oldest keys
W_C25_Evicted ==
    /\ Len(resultCache) = CacheLimit
    /\ resultCache[1].key.path = 103
    /\ resultCache[CacheLimit].of # 0
    /\ resultCache[CacheLimit - 1].of # 0

\* C27: when the 15 s timer fires for a child that has not closed, the
\* child is sent SIGTERM and the promise is rejected with a timeout; when
\* the child is still running as the 3 s timer fires, it is sent SIGKILL;
\* when the child closes first, the timer is cleared and no signal is sent.
C27_GracefulTimeout ==
    [][\A k \in Calls :
          /\ (timeoutId[k] = "armed" /\ timeoutId'[k] = "fired"
              /\ proc[k] = "running") =>
                 /\ signals'[k] = <<"SIGTERM">>
                 /\ outcome'[k] = "rejected"
                 /\ settledWith'[k].kind = "timeout"
          /\ (killTimer[k] = "armed" /\ killTimer'[k] = "fired"
              /\ proc[k] = "running") =>
                 signals'[k] = <<"SIGTERM", "SIGKILL">>
          /\ timeoutId'[k] = "cleared" => signals'[k] = << >>]_vars

\* the child of call s closed after the child of call j did
ClosedAfter(s, j) ==
    \E a, b \in 1..Len(commandHistory) :
        a < b /\ commandHistory[a] = j /\ commandHistory[b] = s

\* C37: once a 'set' command has completed, a later 'get' is never served
\* a cached result that was produced before that set completed (stated
\* for a set that closed with success on the path that the get reads).
C37_ReadAfterWrite ==
    [][\A k \in Calls :
          (Called(k) /\ settledWith'[k].kind = "cached") =>
              ~\E s \in Calls :
                   /\ args[s].set
                   /\ args[s].path = args'[k].path
                   /\ proc[s] = "closed"
                   /\ closeEvent[s].code = 0
                   /\ ClosedAfter(s, settledWith'[k].of)]_vars

\* a command is executing: the promise of executeMvdctRaw of a spawned
\* command is pending
Executing ==
    \E i \in 1..Len(spawned) : outcome[spawned[i]] = "pending"
IsSpawned(k) == \E i \in 1..Len(spawned) : spawned[i] = k
IsSettled(k) == outcome[k] \in {"resolved", "rejected"}

\* C36: provided the event loop runs the setImmediate callbacks and every
\* child closes, errors or reaches its 15 s timer, every queued command is
\* eventually spawned and its promise eventually settled; isProcessing
\* never stays true, and the queue never stays non-empty, while no command
\* is executing.
C36_QueueLiveness ==
    /\ \A k \in Calls : (outcome[k] = "pending") ~> IsSpawned(k)
    /\ \A k \in Calls : (outcome[k] = "pending") ~> IsSettled(k)
    /\ (isProcessing /\ ~Executing) ~> (~isProcessing \/ Executing)
    /\ (requestQueue # << >> /\ ~Executing) ~>
           (requestQueue = << >> \/ Executing)

\* a command waited in the queue behind a command that ran into its 15 s
\* timer, was spawned by the setImmediate callback and has closed; the
\* queue is empty and nothing is executing
W_C36_QueuedThenSettled ==
    /\ Len(spawned) >= 2
    /\ settledWith[spawned[1]].kind = "timeout"
    /\ settledWith[spawned[2]].kind = "exec"
    /\ outcome[spawned[2]] = "resolved"
    /\ requestQueue = << >>
    /\ ~isProcessing

(***************************************************************************)
(* commandHistory of the other two web servers: the direct-MUP1 server     *)
(* (web-server-mup1.js, executeCoAP) and the mup1cc server (executeMup1cc, *)
(* one child per call, no queue and no cache).                             *)
(***************************************************************************)
\* the records of the requests and calls of this behaviour in the history
Recorded(x) == \E i \in 1..Len(commandHistory) : commandHistory[i] = x

\* executeCoAP() after its await: the request was fulfilled (history record
\* and trim), or the request was rejected or the connection failed (catch:
\* history record)
ExecuteCoAPReturns(r) ==
    /\ web = "mup1"
    /\ variant = "server"
    /\ r \in 1..nRequests
    /\ ~Recorded(r)
    /\ Settled(r) \/ (promise[r] = "unsent" /\ awaiting[r] = 0)
    /\ commandHistory' = IF promise[r] = "fulfilled"
                         THEN TrimHistory(Append(commandHistory, r))
                         ELSE Append(commandHistory, r)
    /\ last' = Event("return", r, NoMsg)
    /\ UNCHANGED <<variant, coap, corrVars, connVars, byteVars, web, nCalls,
                   args, requestQueue, isProcessing, immediates, proc,
                   timeoutId, killTimer, killed, signals, outcome,
                   settledWith, closeEvent, spawned, resultCache, now>>

\* executeMup1cc() up to its await: spawn and the 30 s timer
ExecuteMup1cc(ok) ==
    /\ web = "mup1cc"
    /\ nCalls < MaxCalls
    /\ LET k == nCalls + 1
       IN /\ nCalls' = k
          /\ proc' = [proc EXCEPT ![k] = IF ok THEN "running" ELSE "failing"]
          /\ timeoutId' = [timeoutId EXCEPT ![k] = "armed"]
          /\ outcome' = [outcome EXCEPT ![k] = "pending"]
          /\ spawned' = Append(spawned, k)
    /\ UNCHANGED <<coapVars, web, args, requestQueue, isProcessing,
                   immediates, killTimer, killed, signals, settledWith,
                   closeEvent, resultCache, commandHistory, now>>

\* the promise inside executeMup1cc settles, and executeMup1cc returns:
\* isConnected = true after a result, false in the catch block
SettleMup1cc(k, state, v) ==
    IF outcome[k] = "pending"
    THEN /\ outcome' = [outcome EXCEPT ![k] = state]
         /\ settledWith' = [settledWith EXCEPT ![k] = v]
         /\ isConnected' = (state = "resolved")
    ELSE UNCHANGED <<outcome, settledWith, isConnected>>

\* proc.on('close'): code 0 and YAML output is recorded and trimmed; code 0
\* and other output is not recorded; any other code is recorded as failure
Mup1ccClose(k, code, yaml) ==
    /\ web = "mup1cc"
    /\ proc[k] \in {"running", "failed"}
    /\ proc[k] = "failed" => code # 0
    /\ proc' = [proc EXCEPT ![k] = "closed"]
    /\ closeEvent' = [closeEvent EXCEPT ![k] = [code |-> code, at |-> now]]
    /\ commandHistory' =
           IF code = 0
           THEN (IF yaml THEN TrimHistory(Append(commandHistory, k))
                 ELSE commandHistory)
           ELSE Append(commandHistory, k)
    /\ SettleMup1cc(k, IF code = 0 THEN "resolved" ELSE "rejected",
                    [kind |-> "exec", of |-> k])
    /\ UNCHANGED <<variant, coap, corrVars, last, byteVars, serial, nPorts,
                   portState, attached, nClients, serialOf, awaiting,
                   started>>
    /\ UNCHANGED <<web, nCalls, args, requestQueue, isProcessing, immediates,
                   timeoutId, killTimer, killed, signals, spawned,
                   resultCache, now>>

\* proc.on('error')
Mup1ccError(k) ==
    /\ web = "mup1cc"
    /\ proc[k] = "failing"
    /\ proc' = [proc EXCEPT ![k] = "failed"]
    /\ SettleMup1cc(k, "rejected", [kind |-> "error", of |-> k])
    /\ UNCHANGED <<variant, coap, corrVars, last, byteVars, serial, nPorts,
                   portState, attached, nClients, serialOf, awaiting,
                   started>>
    /\ UNCHANGED <<web, nCalls, args, requestQueue, isProcessing, immediates,
                   timeoutId, killTimer, killed, signals, closeEvent,
                   spawned, resultCache, commandHistory, now>>

\* the 30 s timer, which is never cleared: proc.kill(), reject
Mup1ccTimeout(k) ==
    /\ web = "mup1cc"
    /\ timeoutId[k] = "armed"
    /\ timeoutId' = [timeoutId EXCEPT ![k] = "fired"]
    /\ Kill(k, "SIGTERM")
    /\ SettleMup1cc(k, "rejected", [kind |-> "timeout", of |-> k])
    /\ UNCHANGED <<variant, coap, corrVars, last, byteVars, serial, nPorts,
                   portState, attached, nClients, serialOf, awaiting,
                   started>>
    /\ UNCHANGED <<web, nCalls, args, requestQueue, isProcessing, immediates,
                   proc, killTimer, closeEvent, spawned, resultCache,
                   commandHistory, now>>

\* the three servers, each with an empty history or with a history that
\* earlier commands have filled to its limit
InitHistory ==
    /\ variant = "server"
    /\ InitConnected
    /\ InitFresh
    /\ InitNoBytes
    /\ last = Event("init", 0, NoMsg)
    /\ web \in {"mvdct", "mup1", "mup1cc"}
    /\ InitNoCalls
    /\ resultCache = << >>
    /\ commandHistory \in {<< >>, EarlierHistory(HistoryLimit)}

NextHistory ==
    \/ \E a \in QueueCommands : ExecuteMvdct(a, TRUE)
    \/ Immediate(TRUE)
    \/ \E k \in Calls, code \in ExitCodes : ProcClose(k, code)
    \/ \E r \in Requests : web = "mup1" /\ ExecuteCoAP(r)
    \/ \E m \in Messages(InboundIds, Codes, Payloads) :
           web = "mup1" /\ SerialData(m)
    \/ \E r \in Requests : web = "mup1" /\ TimeoutFires(r)
    \/ \E r \in Requests : ExecuteCoAPReturns(r)
    \/ \E ok \in BOOLEAN : ExecuteMup1cc(ok)
    \/ \E k \in Calls, code \in ExitCodes, yaml \in BOOLEAN :
           Mup1ccClose(k, code, yaml)
    \/ \E k \in Calls : Mup1ccError(k)
    \/ \E k \in Calls : Mup1ccTimeout(k)

SpecHistory == InitHistory /\ [][NextHistory]_vars

\* C26: commandHistory never holds more than HistoryLimit entries, in any
\* of the three servers, after any sequence of successful and failed
\* commands.
C26_HistoryBounded == Len(commandHistory) <= HistoryLimit

====
